---- MODULE Spec2Model ----
(***************************************************************************)
(* Markdown to slide-deck conversion engine (MarkdownConverter).           *)
(*                                                                         *)
(* The ParsingContext of one convert() call is the state; every renderer   *)
(* callback (heading, paragraph, listitem, table, image, code, blockquote, *)
(* hr, html) is one action, and the tail of convert() (final flush and the *)
(* post-processors) is the action Finish.  Text is a sequence of           *)
(* one-character strings, so that the regular expressions and the string   *)
(* conversions of the source are computed, not assumed.                    *)
(***************************************************************************)
EXTENDS Integers, Sequences, FiniteSets, TLC

\* ------------------------------------------------------------------ bounds
\* Number of block-handler calls of one conversion in Spec.
MaxBlocks == 3
\* Number of list items of one document in SpecList.
MaxItems == 7
\* Number of data rows of a table in SpecTable.
MaxRows == 3
\* Number of lines of a CSV block in SpecCsv.
MaxLines == 3
\* Number of block-handler calls of the repeated document in SpecTwin.
MaxTwinBlocks == 3
\* Number of block-handler calls of the second document in SpecPair.
MaxOtherBlocks == 2

\* ----------------------------------------------------------- optional values
\* A JavaScript value that may be undefined: <<>> is undefined, <<v>> is v.
None == <<>>
Some(v) == <<v>>

\* obj[k] = v on a JavaScript object: the key is added when it is not there.
Put(r, k, v) == [f \in (DOMAIN r) \cup {k} |-> IF f = k THEN v ELSE r[f]]

\* ------------------------------------------------------------------ strings
IsSpace(c) == c \in {" ", "\n", "\t"}
IsDigit(c) == c \in {"0", "1", "2", "3", "4", "5", "6", "7", "8", "9"}
DigitVal(c) ==
  CASE c = "0" -> 0 [] c = "1" -> 1 [] c = "2" -> 2 [] c = "3" -> 3 [] c = "4" -> 4
    [] c = "5" -> 5 [] c = "6" -> 6 [] c = "7" -> 7 [] c = "8" -> 8 [] c = "9" -> 9

\* s.slice(i - 1): the characters of s from position i on.
From(s, i) == IF i > Len(s) THEN <<>> ELSE SubSeq(s, i, Len(s))

\* s.startsWith(p, i - 1)
StartsWithAt(s, i, p) ==
  /\ i >= 1
  /\ i + Len(p) - 1 <= Len(s)
  /\ \A k \in 1..Len(p) : s[i + k - 1] = p[k]

\* The least position >= i at which p occurs in s, 0 when there is none.
IndexFrom(s, i, p) ==
  LET hits == {k \in i..(Len(s) - Len(p) + 1) : StartsWithAt(s, k, p)}
  IN  IF hits = {} THEN 0 ELSE CHOOSE k \in hits : \A m \in hits : k <= m

\* s.includes(p)
Includes(s, p) == IndexFrom(s, 1, p) # 0

\* The number of leading white-space characters of s: the match of /^(\s*)/.
LeadingSpaces(s) ==
  LET nonsp == {k \in 1..Len(s) : ~IsSpace(s[k])}
  IN  IF nonsp = {} THEN Len(s) ELSE (CHOOSE k \in nonsp : \A m \in nonsp : k <= m) - 1

\* String.prototype.trim
Trim(s) ==
  LET nonsp == {k \in 1..Len(s) : ~IsSpace(s[k])}
  IN  IF nonsp = {} THEN <<>>
      ELSE SubSeq(s, CHOOSE k \in nonsp : \A m \in nonsp : k <= m,
                     CHOOSE k \in nonsp : \A m \in nonsp : k >= m)

\* .replace(/<[^>]*>/g, ''): every stretch from a "<" to the next ">" goes.
RECURSIVE StripTags(_)
StripTags(s) ==
  IF s = <<>> THEN <<>>
  ELSE IF s[1] = "<" /\ IndexFrom(s, 2, <<">">>) # 0
       THEN StripTags(From(s, IndexFrom(s, 2, <<">">>) + 1))
       ELSE <<s[1]>> \o StripTags(Tail(s))

\* .replace(/\n+/g, ' ').replace(/\s+/g, ' '): a run of white space becomes
\* one blank.
RECURSIVE CollapseSpaces(_)
CollapseSpaces(s) ==
  IF s = <<>> THEN <<>>
  ELSE IF IsSpace(s[1])
       THEN <<" ">> \o CollapseSpaces(From(s, LeadingSpaces(s) + 1))
       ELSE <<s[1]>> \o CollapseSpaces(Tail(s))

\* cleanText: tags removed, white space normalised, trimmed.
cleanText(text) == Trim(CollapseSpaces(StripTags(text)))

\* detectIndentLevel: floor(leading white space / 2).
detectIndentLevel(text) == LeadingSpaces(text) \div 2

\* ------------------------------------------------------- string literals
S_Content == <<"C", "o", "n", "t", "e", "n", "t">>
S_Chart == <<"C", "h", "a", "r", "t">>
S_DataTable == <<"D", "a", "t", "a", " ", "T", "a", "b", "l", "e">>
S_DataChart == <<"D", "a", "t", "a", " ", "C", "h", "a", "r", "t">>
S_CustomSlide == <<"C", "u", "s", "t", "o", "m", " ", "S", "l", "i", "d", "e">>
S_Note == <<"N", "o", "t", "e">>
S_Image == <<"I", "m", "a", "g", "e">>
S_CodePrefix == <<"C", "o", "d", "e", ":", " ">>
S_snippet == <<"s", "n", "i", "p", "p", "e", "t">>
S_bar == <<"b", "a", "r">>
S_custom == <<"c", "u", "s", "t", "o", "m">>
S_type == <<"t", "y", "p", "e">>
S_title == <<"t", "i", "t", "l", "e">>
S_elements == <<"e", "l", "e", "m", "e", "n", "t", "s">>
S_CommentOpen == <<"<", "!", "-", "-">>
S_CommentClose == <<"-", "-", ">">>
S_slide == <<"s", "l", "i", "d", "e", ":">>
S_notes == <<"n", "o", "t", "e", "s", ":">>
S_chart == <<"c", "h", "a", "r", "t", ":">>
S_FenceSlide == <<":", ":", ":", "s", "l", "i", "d", "e">>
S_FenceNotes == <<":", ":", ":", "n", "o", "t", "e", "s">>
S_FenceChart == <<":", ":", ":", "c", "h", "a", "r", "t">>
S_http == <<"h", "t", "t", "p">>
S_csv == <<"c", "s", "v">>
S_chartLang == <<"c", "h", "a", "r", "t">>
S_TableOfContents ==
  <<"T", "a", "b", "l", "e", " ", "o", "f", " ", "C", "o", "n", "t", "e", "n",
    "t", "s">>
S_SectionColor == <<"#", "2", "C", "3", "E", "5", "0">>

\* The characters of the class \w.
WordChars ==
  {"a", "b", "c", "d", "e", "f", "g", "h", "i", "j", "k", "l", "m", "n",
   "o", "p", "q", "r", "s", "t", "u", "v", "w", "x", "y", "z", "A", "B",
   "C", "D", "E", "F", "G", "H", "I", "J", "K", "L", "M", "N", "O", "P",
   "Q", "R", "S", "T", "U", "V", "W", "X", "Y", "Z", "0", "1", "2", "3",
   "4", "5", "6", "7", "8", "9", "_"}

MinOf(S) == CHOOSE k \in S : \A m \in S : k <= m
MaxOf(S) == CHOOSE k \in S : \A m \in S : k >= m

\* ------------------------------------------------------------- directives
\* The position after /<!--\s*kw/ when it matches at position i, else 0.
OpenAt(s, i, kw) ==
  IF ~StartsWithAt(s, i, S_CommentOpen) THEN 0
  ELSE LET j == i + 4 + LeadingSpaces(From(s, i + 4))
       IN  IF StartsWithAt(s, j, kw) THEN j + Len(kw) ELSE 0

\* isDirective: /<!--\s*(slide:|notes:|chart:)/ anywhere in the text, or
\* /^:::(slide|notes|chart)/ at its start.
isDirective(text) ==
  \/ \E i \in 1..Len(text) : \E kw \in {S_slide, S_notes, S_chart} :
        OpenAt(text, i, kw) # 0
  \/ \E f \in {S_FenceSlide, S_FenceNotes, S_FenceChart} : StartsWithAt(text, 1, f)

\* /\s*-->/ matches at position e.
CloseAt(s, e) == StartsWithAt(s, e + LeadingSpaces(From(s, e)), S_CommentClose)

\* The group of /\s*(.+?)\s*-->/ matched from position p: \s* is greedy and
\* gives white space back only when no group starts after it, the group is the
\* shortest stretch without a line break that the closing part follows.
CaptureFrom(s, p) ==
  LET w == LeadingSpaces(From(s, p))
      Ends(q) == {e \in q..Len(s) :
                    (\A k \in q..e : s[k] # "\n") /\ CloseAt(s, e + 1)}
      starts == {q \in p..(p + w) : Ends(q) # {}}
  IN  IF starts = {} THEN None
      ELSE Some(SubSeq(s, MaxOf(starts), MinOf(Ends(MaxOf(starts)))))

\* text.match(/<!--\s*kw\s*(.+?)\s*-->/): the group of the leftmost match,
\* None when there is no match.
DirectiveMatch(text, kw) ==
  LET cands == {i \in 1..Len(text) :
                   /\ OpenAt(text, i, kw) # 0
                   /\ CaptureFrom(text, OpenAt(text, i, kw)) # None}
  IN  IF cands = {} THEN None
      ELSE CaptureFrom(text, OpenAt(text, MinOf(cands), kw))

\* The end of the run of word characters that starts at position i.
WordEnd(s, i) ==
  LET stops == {k \in i..Len(s) : s[k] \notin WordChars}
  IN  IF stops = {} THEN Len(s) + 1 ELSE MinOf(stops)

\* The position of the closing quote when /(\w+)="([^"]+)"/ matches at
\* position i, else 0.
ParamAt(s, i) ==
  IF i > Len(s) \/ s[i] \notin WordChars THEN 0
  ELSE LET j == WordEnd(s, i)
           v == IndexFrom(s, j + 2, <<"\"">>)
       IN  IF StartsWithAt(s, j, <<"=", "\"">>) /\ v >= j + 3 THEN v ELSE 0

\* parseDirectiveParams: the key="value" pairs of the text in order, each a
\* pair <<key, value>>; a later pair of the same key overrides an earlier one
\* (ParamGet reads the last).
RECURSIVE parseDirectiveParams(_)
parseDirectiveParams(params) ==
  LET cands == {i \in 1..Len(params) : ParamAt(params, i) # 0}
  IN  IF cands = {} THEN <<>>
      ELSE LET i == MinOf(cands)
               j == WordEnd(params, i)
               v == ParamAt(params, i)
           IN  <<<<SubSeq(params, i, j - 1), SubSeq(params, j + 2, v - 1)>>>>
                 \o parseDirectiveParams(From(params, v + 1))

\* result[key] of the object parseDirectiveParams returns.
ParamGet(result, key) ==
  LET hits == {k \in 1..Len(result) : result[k][1] = key}
  IN  IF hits = {} THEN None ELSE Some(result[MaxOf(hits)][2])

\* a || b for a string that may be undefined: "" and undefined are falsy.
OrElse(opt, default) == IF opt # None /\ opt[1] # <<>> THEN opt[1] ELSE default

\* -------------------------------------------------------------- numbers
\* The end of the run of digits that starts at position i.
DigitsEnd(s, i) ==
  LET stops == {k \in i..Len(s) : ~IsDigit(s[k])}
  IN  IF stops = {} THEN Len(s) + 1 ELSE MinOf(stops)

RECURSIVE DigitsValue(_)
DigitsValue(ds) ==
  IF ds = <<>> THEN 0
  ELSE 10 * DigitsValue(SubSeq(ds, 1, Len(ds) - 1)) + DigitVal(ds[Len(ds)])

\* parseFloat on text without ".", exponent or "Infinity": leading white space
\* is skipped, then an optional sign and the longest run of digits are read
\* and whatever follows is ignored; None is NaN.
parseFloat(s) ==
  LET i == LeadingSpaces(s) + 1
      signed == i <= Len(s) /\ s[i] \in {"-", "+"}
      d == IF signed THEN i + 1 ELSE i
      e == DigitsEnd(s, d)
  IN  IF d > Len(s) \/ e = d THEN None
      ELSE IF signed /\ s[i] = "-"
           THEN Some(0 - DigitsValue(SubSeq(s, d, e - 1)))
           ELSE Some(DigitsValue(SubSeq(s, d, e - 1)))

\* Mutant of ParseFloatOrZero: a cell that is not a number gives -1.
ParseFloatOrZero_Marked(s) == IF parseFloat(s) = None THEN 0 - 1 ELSE parseFloat(s)[1]

\* !isNaN(parseFloat(s))
IsNumeric(s) == parseFloat(s) # None

\* parseFloat(s) || 0: NaN and 0 both give 0.
ParseFloatOrZero(s) == IF parseFloat(s) = None THEN 0 ELSE parseFloat(s)[1]

\* --------------------------------------------------------- chart patterns
LineStart(s, p) == IF p = 1 THEN TRUE ELSE s[p - 1] = "\n"
LineEnd(s, q) == IF q = Len(s) + 1 THEN TRUE ELSE s[q] = "\n"

\* CHART_PATTERNS.CSV = /^[^,]+,[^,]+(,[^,]+)*$/m: from some line start a
\* non-empty stretch without comma (line breaks allowed) up to the first
\* comma, then non-empty comma-free fields up to some line end.
PatternCSV(s) ==
  \E p \in 1..Len(s) :
    /\ LineStart(s, p)
    /\ LET c == IndexFrom(s, p, <<",">>)
       IN  /\ c > p
           /\ \E q \in (c + 2)..(Len(s) + 1) :
                /\ LineEnd(s, q)
                /\ s[c + 1] # ","
                /\ s[q - 1] # ","
                /\ \A k \in (c + 1)..(q - 2) : ~(s[k] = "," /\ s[k + 1] = ",")

\* CHART_PATTERNS.JSON = /^\s*\{[\s\S]*\}\s*$/
PatternJSON(s) ==
  LET t == Trim(s) IN Len(t) >= 2 /\ t[1] = "{" /\ t[Len(t)] = "}"

\* CHART_PATTERNS.TABLE_NUMERIC = /^\s*\|.*\|.*\|.*\|\s*$/m
PatternTABLE(s) ==
  \E p \in 1..Len(s) :
    /\ LineStart(s, p)
    /\ LET a == p + LeadingSpaces(From(s, p))
       IN  /\ a <= Len(s)
           /\ s[a] = "|"
           /\ \E b \in (a + 3)..Len(s) :
                /\ s[b] = "|"
                /\ \A k \in a..b : s[k] # "\n"
                /\ Cardinality({k \in a..b : s[k] = "|"}) >= 4
                /\ \E e \in (b + 1)..(Len(s) + 1) :
                     LineEnd(s, e) /\ \A k \in (b + 1)..(e - 1) : IsSpace(s[k])

\* isChartData
isChartData(text) == PatternCSV(text) \/ PatternJSON(text) \/ PatternTABLE(text)

\* s.split(c) for a one-character separator.
RECURSIVE Split(_, _)
Split(s, c) ==
  LET i == IndexFrom(s, 1, <<c>>)
  IN  IF i = 0 THEN <<s>>
      ELSE <<SubSeq(s, 1, i - 1)>> \o Split(From(s, i + 1), c)

\* line.split(',').map(v => v.trim())
Fields(line) == LET f == Split(line, ",") IN [k \in 1..Len(f) |-> Trim(f[k])]

\* Mutant of ColumnData: a field that is missing or not numeric gives 0.
RECURSIVE ColumnData_Padded(_, _)
ColumnData_Padded(rows, col) ==
  IF rows = <<>> THEN <<>>
  ELSE <<IF col <= Len(rows[1]) THEN ParseFloatOrZero(rows[1][col]) ELSE 0>>
       \o ColumnData_Padded(Tail(rows), col)

\* The numbers one dataset collects: over the data rows in order, the value of
\* field col where the row has that field and it is numeric.
RECURSIVE ColumnData(_, _)
ColumnData(rows, col) ==
  IF rows = <<>> THEN <<>>
  ELSE (IF col <= Len(rows[1]) /\ IsNumeric(rows[1][col])
        THEN <<parseFloat(rows[1][col])[1]>> ELSE <<>>)
       \o ColumnData(Tail(rows), col)

\* parseCSVToChartData.  threw: a numeric field beyond the last header makes
\* datasets[j - 1] undefined and the push a TypeError.
parseCSVToChartData(csv) ==
  LET lines == Split(Trim(csv), "\n")
      headers == Fields(lines[1])
      rows == [k \in 1..(Len(lines) - 1) |-> Fields(lines[k + 1])]
  IN  [threw |-> \E k \in 1..Len(rows) : \E j \in 2..Len(rows[k]) :
                    IsNumeric(rows[k][j]) /\ j > Len(headers),
       value |-> [labels |-> [k \in 1..Len(rows) |-> rows[k][1]],
                  datasets |-> [i \in 1..(Len(headers) - 1) |->
                                  [label |-> headers[i + 1],
                                   data |-> ColumnData(rows, i + 1)]]]]

\* JSON texts of the model.
S_pie == <<"p", "i", "e">>
J_Empty == <<"{", "}">>
J_Bad == <<"{", "x", "}">>
J_Chart ==
  <<"{", "\"", "l", "a", "b", "e", "l", "s", "\"", ":", "[", "\"", "a",
    "\"", "]", ",", "\"", "d", "a", "t", "a", "s", "e", "t", "s", "\"",
    ":", "[", "{", "\"", "l", "a", "b", "e", "l", "\"", ":", "\"", "S",
    "\"", ",", "\"", "d", "a", "t", "a", "\"", ":", "[", "1", "]", "}",
    "]", "}">>
J_Pie ==
  <<"{", "\"", "t", "y", "p", "e", "\"", ":", "\"", "p", "i", "e", "\"",
    ",", "\"", "l", "a", "b", "e", "l", "s", "\"", ":", "[", "\"", "a",
    "\"", "]", ",", "\"", "d", "a", "t", "a", "s", "e", "t", "s", "\"",
    ":", "[", "{", "\"", "l", "a", "b", "e", "l", "\"", ":", "\"", "S",
    "\"", ",", "\"", "d", "a", "t", "a", "\"", ":", "[", "1", "]", "}",
    "]", "}">>
J_NoData ==
  <<"{", "\"", "d", "a", "t", "a", "s", "e", "t", "s", "\"", ":", "[", "]",
    "}">>

\* JSON.parse on the texts above; any other text is a SyntaxError here.
JSONparse(text) ==
  LET ds == <<[label |-> <<"S">>, data |-> <<1>>]>>
  IN  CASE text = J_Chart ->
             [threw |-> FALSE, value |-> [labels |-> <<<<"a">>>>, datasets |-> ds]]
        [] text = J_Pie ->
             [threw |-> FALSE,
              value |-> [type |-> S_pie, labels |-> <<<<"a">>>>, datasets |-> ds]]
        [] text = J_NoData -> [threw |-> FALSE, value |-> [datasets |-> <<>>]]
        [] text = J_Empty -> [threw |-> FALSE, value |-> <<>>]
        [] OTHER -> [threw |-> TRUE, value |-> <<>>]

\* --------------------------------------------------------- ParsingContext
\* The context convert() builds for one call.  inCodeBlock, inTable,
\* tableHeaders and tableRows are initialised there and never read or written
\* again; they are left out.
NewContext(frontmatter) ==
  [slides |-> <<>>,
   currentSlide |-> None,
   currentBullets |-> <<>>,
   currentLevel |-> <<>>,
   metadata |-> frontmatter,
   sectionDepth |-> 0,
   slideCount |-> 0]

\* context.currentSlide?.title || fallback
TitleOr(currentSlide, fallback) ==
  IF currentSlide # None /\ "title" \in DOMAIN currentSlide[1]
  THEN OrElse(Some(currentSlide[1].title), fallback)
  ELSE fallback

\* The text slide flushCurrentSlide builds from the pending bullets.
TextSlideOf(context) ==
  LET base == [layout |-> "text",
               title |-> TitleOr(context.currentSlide, S_Content),
               bullets |-> context.currentBullets]
      levelled == IF Len(context.currentLevel) > 0
                  THEN Put(base, "level", context.currentLevel)
                  ELSE base
  IN  IF context.currentSlide # None /\ "notes" \in DOMAIN context.currentSlide[1]
      THEN Put(levelled, "notes", context.currentSlide[1].notes)
      ELSE levelled

\* Mutant of IsEmptyTextSkeleton: the skeleton is never recognised as empty.
IsEmptyTextSkeleton_Never(slide) == FALSE

\* The test that makes flushCurrentSlide drop a skeleton: a text layout that
\* has no bullets field or an empty one.
IsEmptyTextSkeleton(slide) ==
  /\ slide.layout = "text"
  /\ ("bullets" \notin DOMAIN slide \/ Len(slide.bullets) = 0)

\* A flushCurrentSlide that emits the pending bullets and leaves the
\* skeleton in flight.
flushCurrentSlide_Keep(context) ==
  IF Len(context.currentBullets) > 0
  THEN [context EXCEPT !.slides = Append(@, TextSlideOf(context)),
                       !.currentBullets = <<>>,
                       !.currentLevel = <<>>]
  ELSE context

\* flushCurrentSlide
flushCurrentSlide(context) ==
  IF Len(context.currentBullets) > 0
  THEN [context EXCEPT !.slides = Append(@, TextSlideOf(context)),
                       !.currentBullets = <<>>,
                       !.currentLevel = <<>>,
                       !.currentSlide = None]
  ELSE IF context.currentSlide # None /\ "layout" \in DOMAIN context.currentSlide[1]
       THEN IF IsEmptyTextSkeleton(context.currentSlide[1])
            THEN [context EXCEPT !.currentSlide = None]
            ELSE [context EXCEPT !.slides = Append(@, context.currentSlide[1]),
                                 !.currentSlide = None]
       ELSE context

\* The options of the converter that the engine reads.
DefaultSlidesPerPage == 6
DefaultOptions ==
  [slidesPerPage |-> DefaultSlidesPerPage,
   autoSplit |-> TRUE,
   includeTableOfContents |-> FALSE,
   slideNumbers |-> FALSE]

\* Mutant of AutoSplit: the handlers never close a slide.
AutoSplit_Never(context, options) == context

\* Mutant of AutoSplit: the slide is closed one bullet late.
AutoSplit_Late(context, options) ==
  IF options.autoSplit /\ Len(context.currentBullets) > options.slidesPerPage
  THEN flushCurrentSlide(context)
  ELSE context

\* Mutant of AutoSplit: the slide in flight stays in flight after the split,
\* so the next bullet goes under its title.
AutoSplit_Carry(context, options) ==
  IF options.autoSplit /\ Len(context.currentBullets) >= options.slidesPerPage
  THEN [flushCurrentSlide(context) EXCEPT !.currentSlide = context.currentSlide]
  ELSE context

\* The auto-split both bullet handlers run after an append.
AutoSplit(context, options) ==
  IF options.autoSplit /\ Len(context.currentBullets) >= options.slidesPerPage
  THEN flushCurrentSlide(context)
  ELSE context

\* A title slide's optional field: present when the metadata has it.
WithMeta(slide, key, value) == IF value = None THEN slide ELSE Put(slide, key, value[1])

\* Mutant of TitleSlideOf: the clock reaches the title as well.
TitleSlideOf_Stamped(context, text, now) ==
  [layout |-> "title", title |-> now, date |-> OrElse(context.metadata.date, now)]

\* Mutant of TitleSlideOf: the title is the raw text, tags included.
TitleSlideOf_Raw(context, text, now) ==
  [layout |-> "title", title |-> text, date |-> OrElse(context.metadata.date, now)]

\* The slide a level-1 heading pushes; now is new Date().toLocaleDateString().
TitleSlideOf(context, text, now) ==
  WithMeta(WithMeta([layout |-> "title",
                     title |-> cleanText(text),
                     date |-> OrElse(context.metadata.date, now)],
                    "subtitle", context.metadata.subtitle),
           "author", context.metadata.author)

\* The third branch of renderer.heading, on the context as the flush left it.
HeadingLevel3(context, text) ==
  IF Len(context.currentBullets) > 0
  THEN [context EXCEPT
          !.currentBullets = Append(@, <<"*", "*">> \o cleanText(text) \o <<"*", "*">>),
          !.currentLevel = Append(@, 0)]
  ELSE [context EXCEPT
          !.currentSlide = Some([layout |-> "text", title |-> cleanText(text)]),
          !.currentBullets = <<>>,
          !.currentLevel = <<>>]

\* A renderer.heading that makes the slide of a level-2 heading as it makes
\* the slide of a level-1 heading, with the background colour added.
heading_SectionAsTitle(context, text, level, now) ==
  LET flushed == flushCurrentSlide(context)
  IN  CASE level = 1 ->
             [flushed EXCEPT !.slides = Append(@, TitleSlideOf(flushed, text, now))]
        [] level = 2 ->
             [flushed EXCEPT
                !.slides = Append(@, Put(TitleSlideOf(flushed, text, now),
                                         "backgroundColor", S_SectionColor)),
                !.sectionDepth = 2]
        [] level = 3 -> HeadingLevel3(flushed, text)
        [] OTHER -> flushed

\* renderer.heading
heading(context, text, level, now) ==
  LET flushed == flushCurrentSlide(context)
  IN  CASE level = 1 ->
             [flushed EXCEPT !.slides = Append(@, TitleSlideOf(flushed, text, now))]
        [] level = 2 ->
             [flushed EXCEPT
                !.slides = Append(@, [layout |-> "title",
                                      title |-> cleanText(text),
                                      backgroundColor |-> S_SectionColor]),
                !.sectionDepth = 2]
        [] level = 3 -> HeadingLevel3(flushed, text)
        [] OTHER -> flushed

\* A renderer.listitem that records no level for its bullet.
listitem_Unlevelled(context, options, text) ==
  LET started == IF context.currentSlide = None
                 THEN [context EXCEPT
                         !.currentSlide = Some([layout |-> "text", title |-> S_Content])]
                 ELSE context
  IN  AutoSplit([started EXCEPT !.currentBullets = Append(@, cleanText(text))],
                options)

\* renderer.listitem
listitem(context, options, text) ==
  LET started == IF context.currentSlide = None
                 THEN [context EXCEPT
                         !.currentSlide = Some([layout |-> "text", title |-> S_Content])]
                 ELSE context
  IN  AutoSplit([started EXCEPT
                   !.currentBullets = Append(@, cleanText(text)),
                   !.currentLevel = Append(@, detectIndentLevel(text))],
                options)

\* A processDirective that makes a custom slide of every slide directive,
\* whatever its type, and knows no other directive.
processDirective_AnyType(context, text) ==
  LET slideMatch == DirectiveMatch(text, S_slide)
  IN  IF slideMatch = None THEN context
      ELSE [flushCurrentSlide(context) EXCEPT
              !.slides = Append(@,
                [layout |-> "custom",
                 title |-> OrElse(ParamGet(parseDirectiveParams(slideMatch[1]), S_title),
                                  S_CustomSlide),
                 elements |-> <<>>])]

\* processDirective
processDirective(context, text) ==
  LET slideMatch == DirectiveMatch(text, S_slide)
      notesMatch == DirectiveMatch(text, S_notes)
      chartMatch == DirectiveMatch(text, S_chart)
  IN  IF slideMatch # None
      THEN LET params == parseDirectiveParams(slideMatch[1])
               flushed == flushCurrentSlide(context)
           IN  IF ParamGet(params, S_type) = Some(S_custom)
               THEN [flushed EXCEPT
                       !.slides = Append(@,
                         [layout |-> "custom",
                          title |-> OrElse(ParamGet(params, S_title), S_CustomSlide),
                          elements |-> OrElse(ParamGet(params, S_elements), <<>>)])]
               ELSE context
      ELSE IF notesMatch # None
      THEN LET notes == Trim(notesMatch[1])
           IN  IF context.currentSlide # None
               THEN [context EXCEPT
                       !.currentSlide = Some(Put(context.currentSlide[1], "notes", notes))]
               ELSE IF Len(context.slides) > 0
                    THEN [context EXCEPT
                            !.slides[Len(context.slides)] = Put(@, "notes", notes)]
                    ELSE context
      ELSE IF chartMatch # None
      THEN LET params == parseDirectiveParams(chartMatch[1])
           IN  [context EXCEPT
                  !.currentSlide = Some([layout |-> "chart",
                                         chartType |-> OrElse(ParamGet(params, S_type), S_bar)])]
      ELSE context

\* The value processChartData binds to chartData: [threw, value], value None
\* when neither the JSON nor the CSV pattern matches.
ChartDataOf(text) ==
  IF PatternJSON(text)
  THEN [threw |-> JSONparse(text).threw, value |-> Some(JSONparse(text).value)]
  ELSE IF PatternCSV(text)
       THEN [threw |-> parseCSVToChartData(text).threw,
             value |-> Some(parseCSVToChartData(text).value)]
       ELSE [threw |-> FALSE, value |-> None]

\* chartData && chartData.datasets && chartData.datasets.length > 0
HasDatasets(chartData) ==
  /\ chartData # None
  /\ "datasets" \in DOMAIN chartData[1]
  /\ Len(chartData[1].datasets) > 0

\* The chart slide processChartData builds from chartData.
ChartSlideOf(context, v) ==
  [layout |-> "chart",
   title |-> TitleOr(context.currentSlide, S_Chart),
   chartType |-> IF "type" \in DOMAIN v THEN OrElse(Some(v.type), S_bar) ELSE S_bar,
   data |-> IF "data" \in DOMAIN v THEN v.data ELSE v]

\* Mutant of processChartData: the slide is built from whatever was parsed,
\* datasets or not.
processChartData_Unguarded(context, text) ==
  LET flushed == flushCurrentSlide(context)
      chartData == ChartDataOf(text)
  IN  IF ~chartData.threw /\ chartData.value # None
      THEN [flushed EXCEPT !.slides = Append(@, ChartSlideOf(flushed, chartData.value[1]))]
      ELSE flushed

\* processChartData: the flush stays when the parse throws.
processChartData(context, text) ==
  LET flushed == flushCurrentSlide(context)
      chartData == ChartDataOf(text)
  IN  IF ~chartData.threw /\ HasDatasets(chartData.value)
      THEN [flushed EXCEPT !.slides = Append(@, ChartSlideOf(flushed, chartData.value[1]))]
      ELSE flushed

\* A renderer.paragraph that starts a slide for a paragraph when none is in
\* flight, as renderer.listitem does.
paragraph_Lazy(context, options, text) ==
  IF isDirective(text) THEN processDirective(context, text)
  ELSE IF isChartData(text) THEN processChartData(context, text)
  ELSE listitem(context, options, cleanText(text))

\* renderer.paragraph
paragraph(context, options, text) ==
  IF isDirective(text) THEN processDirective(context, text)
  ELSE IF isChartData(text) THEN processChartData(context, text)
  ELSE IF (context.currentSlide # None \/ Len(context.currentBullets) > 0)
          /\ cleanText(text) # <<>>
       THEN AutoSplit([context EXCEPT
                         !.currentBullets = Append(@, cleanText(text)),
                         !.currentLevel = Append(@, 0)],
                      options)
       ELSE context

\* ------------------------------------------------------------------ tables
\* body.match(/<tr[^>]*>[\s\S]*?<\/tr>/g) || []
RECURSIVE RowMatches(_)
RowMatches(body) ==
  LET close(i) == IndexFrom(body, IndexFrom(body, i + 3, <<">">>) + 1,
                            <<"<", "/", "t", "r", ">">>)
      cands == {i \in 1..Len(body) :
                  /\ StartsWithAt(body, i, <<"<", "t", "r">>)
                  /\ IndexFrom(body, i + 3, <<">">>) # 0
                  /\ close(i) # 0}
  IN  IF cands = {} THEN <<>>
      ELSE LET i == MinOf(cands)
           IN  <<SubSeq(body, i, close(i) + 4)>> \o RowMatches(From(body, close(i) + 5))

\* parseHTMLTableRow: the cleaned contents of the cells that the expression
\* <tag[^>]*>([^<]*)</tag> matches, tag being <<"t", "h">> or <<"t", "d">>.
RECURSIVE parseHTMLTableRow(_, _)
parseHTMLTableRow(html, cellTag) ==
  LET gt(i) == IndexFrom(html, i + 3, <<">">>)
      lt(i) == IndexFrom(html, gt(i) + 1, <<"<">>)
      cands == {i \in 1..Len(html) :
                  /\ StartsWithAt(html, i, <<"<">> \o cellTag)
                  /\ gt(i) # 0
                  /\ lt(i) # 0
                  /\ StartsWithAt(html, lt(i), <<"<", "/">> \o cellTag \o <<">">>)}
  IN  IF cands = {} THEN <<>>
      ELSE LET i == MinOf(cands)
           IN  <<cleanText(SubSeq(html, gt(i) + 1, lt(i) - 1))>>
                 \o parseHTMLTableRow(From(html, lt(i) + 5), cellTag)

\* The rows renderer.table keeps: the parsed rows that have a cell.
RECURSIVE ParsedRows(_)
ParsedRows(rowMatches) ==
  IF rowMatches = <<>> THEN <<>>
  ELSE LET rowData == parseHTMLTableRow(rowMatches[1], <<"t", "d">>)
       IN  (IF Len(rowData) > 0 THEN <<rowData>> ELSE <<>>)
             \o ParsedRows(Tail(rowMatches))

\* The cells isChartTable counts: those after the first of each row.
RECURSIVE CountCells(_, _)
CountCells(rows, numericOnly) ==
  IF rows = <<>> THEN 0
  ELSE Cardinality({i \in 2..Len(rows[1]) : ~numericOnly \/ IsNumeric(rows[1][i])})
         + CountCells(Tail(rows), numericOnly)

\* Mutant of isChartTable: a table at exactly 80% is eligible as well.
isChartTable_AtLeast(headers, rows) ==
  IF Len(headers) < 2 \/ Len(rows) < 2 THEN FALSE
  ELSE 5 * CountCells(rows, TRUE) >= 4 * CountCells(rows, FALSE)

\* isChartTable.  numericCount / totalCount > 0.8 is decided on the integers:
\* 5 * numericCount > 4 * totalCount (0 / 0 is NaN, and NaN > 0.8 is false).
isChartTable(headers, rows) ==
  IF Len(headers) < 2 \/ Len(rows) < 2 THEN FALSE
  ELSE 5 * CountCells(rows, TRUE) > 4 * CountCells(rows, FALSE)

\* createChartFromTable: a cell the row does not have is undefined, and
\* parseFloat(undefined) || 0 is 0.
createChartFromTable(headers, rows, context) ==
  [layout |-> "chart",
   title |-> TitleOr(context.currentSlide, S_DataChart),
   chartType |-> S_bar,
   data |-> [labels |-> [k \in 1..Len(rows) |-> rows[k][1]],
             datasets |-> [i \in 1..(Len(headers) - 1) |->
                [label |-> headers[i + 1],
                 data |-> [k \in 1..Len(rows) |->
                             IF i + 1 <= Len(rows[k])
                             THEN ParseFloatOrZero(rows[k][i + 1]) ELSE 0]]]]]

\* The table slide of renderer.table.
TableSlideOf(headers, rows, context) ==
  [layout |-> "table",
   title |-> TitleOr(context.currentSlide, S_DataTable),
   headers |-> headers,
   tableData |-> rows,
   styling |-> [headerBackground |-> "#2C3E50",
                headerTextColor |-> "#FFFFFF",
                alternateRows |-> TRUE]]

\* renderer.table
table(context, header, body) ==
  LET flushed == flushCurrentSlide(context)
      headers == parseHTMLTableRow(header, <<"t", "h">>)
      rows == ParsedRows(RowMatches(body))
      slide == IF isChartTable(headers, rows)
               THEN createChartFromTable(headers, rows, flushed)
               ELSE TableSlideOf(headers, rows, flushed)
  IN  [flushed EXCEPT !.slides = Append(@, slide), !.currentSlide = None]

\* ---------------------------------------------------------- other handlers
\* A renderer.image whose slide takes the place of the slides emitted so far.
image_Alone(context, href, title, text) ==
  [flushCurrentSlide(context) EXCEPT
     !.slides = <<[layout |-> "image", title |-> text, caption |-> text,
                   sizing |-> "contain", imagePath |-> href]>>]

\* renderer.image; title is None for null.
image(context, href, title, text) ==
  LET flushed == flushCurrentSlide(context)
      base == [layout |-> "image",
               title |-> OrElse(title, OrElse(Some(text), S_Image)),
               caption |-> text,
               sizing |-> "contain"]
      slide == IF StartsWithAt(href, 1, S_http)
               THEN Put(base, "imageUrl", href)
               ELSE Put(base, "imagePath", href)
  IN  [flushed EXCEPT !.slides = Append(@, slide)]

\* A renderer.code that makes a notes slide of every block, chart data or not.
code_Unrouted(context, source, language) ==
  LET flushed == flushCurrentSlide(context)
  IN  [flushed EXCEPT
         !.slides = Append(@, [layout |-> "notes",
                               title |-> S_CodePrefix \o OrElse(language, S_snippet),
                               content |-> source])]

\* renderer.code; language is None when the fence has no tag.
code(context, source, language) ==
  IF isChartData(source) \/ language = Some(S_chartLang) \/ language = Some(S_csv)
  THEN processChartData(context, source)
  ELSE LET flushed == flushCurrentSlide(context)
       IN  [flushed EXCEPT
              !.slides = Append(@, [layout |-> "notes",
                                    title |-> S_CodePrefix \o OrElse(language, S_snippet),
                                    content |-> source])]

\* A renderer.blockquote that appends its slide without flushing first.
blockquote_Unflushed(context, quote) ==
  [context EXCEPT
     !.slides = Append(@, [layout |-> "notes",
                           title |-> S_Note,
                           content |-> cleanText(quote)])]

\* renderer.blockquote
blockquote(context, quote) ==
  LET flushed == flushCurrentSlide(context)
  IN  [flushed EXCEPT
         !.slides = Append(@, [layout |-> "notes",
                               title |-> S_Note,
                               content |-> cleanText(quote)])]

\* A renderer.hr that discards what is pending instead of emitting it.
hr_Discard(context) ==
  [context EXCEPT !.currentBullets = <<>>, !.currentLevel = <<>>, !.currentSlide = None]

\* A renderer.hr that emits a blank slide of its own after the flush.
hr_Blank(context) ==
  [flushCurrentSlide(context) EXCEPT !.slides = Append(@, [layout |-> "blank"])]

\* renderer.hr
hr(context) == flushCurrentSlide(context)

\* A renderer.html that hands no comment to processDirective.
html_Deaf(context, text) == context

\* A renderer.html that hands every comment to processDirective.
html_Any(context, text) == processDirective(context, text)

\* renderer.html
html(context, text) ==
  IF Includes(text, S_slide) \/ Includes(text, S_notes)
  THEN processDirective(context, text)
  ELSE context

\* --------------------------------------------------------- post-processors
DigitChar(d) ==
  CASE d = 0 -> "0" [] d = 1 -> "1" [] d = 2 -> "2" [] d = 3 -> "3" [] d = 4 -> "4"
    [] d = 5 -> "5" [] d = 6 -> "6" [] d = 7 -> "7" [] d = 8 -> "8" [] d = 9 -> "9"

\* `${n}` for n >= 0
RECURSIVE Decimal(_)
Decimal(n) ==
  IF n < 10 THEN <<DigitChar(n)>> ELSE Decimal(n \div 10) \o <<DigitChar(n % 10)>>

\* Every slide of title layout taken for a section divider.
IsSectionDivider_AnyTitle(slide) == slide.layout = "title"

\* The slides insertTableOfContents collects titles from: title layout with a
\* background colour.
IsSectionDivider(slide) ==
  /\ slide.layout = "title"
  /\ "backgroundColor" \in DOMAIN slide
  /\ slide.backgroundColor # <<>>

RECURSIVE TocBullets(_)
TocBullets(slides) ==
  IF slides = <<>> THEN <<>>
  ELSE (IF IsSectionDivider(slides[1]) THEN <<slides[1].title>> ELSE <<>>)
         \o TocBullets(Tail(slides))

\* slides.splice(index, 0, slide), index counted from 0.
Splice(slides, index, slide) ==
  IF index >= Len(slides) THEN Append(slides, slide)
  ELSE SubSeq(slides, 1, index) \o <<slide>> \o SubSeq(slides, index + 1, Len(slides))

\* An insertTableOfContents that always inserts at index 1.
insertTableOfContents_Second(slides) ==
  IF Len(TocBullets(slides)) > 0
  THEN Splice(slides, 1, [layout |-> "text", title |-> S_TableOfContents,
                          bullets |-> TocBullets(slides)])
  ELSE slides

\* insertTableOfContents, on the slides of the presentation.
insertTableOfContents(slides) ==
  LET tocBullets == TocBullets(slides)
      titles == {i \in 1..Len(slides) : slides[i].layout = "title"}
      insertIndex == IF titles = {} THEN 1 ELSE MinOf(titles)
  IN  IF Len(tocBullets) > 0
      THEN Splice(slides, insertIndex,
                  [layout |-> "text", title |-> S_TableOfContents, bullets |-> tocBullets])
      ELSE slides

\* An addSlideNumbers that counts the slides from 0, as forEach does.
addSlideNumbers_FromZero(slides) ==
  [i \in 1..Len(slides) |->
     IF slides[i].layout # "title"
     THEN Put(slides[i], "slideNumber",
              Decimal(i - 1) \o <<" ", "/", " ">> \o Decimal(Len(slides)))
     ELSE slides[i]]

\* addSlideNumbers, on the slides of the presentation.
addSlideNumbers(slides) ==
  [i \in 1..Len(slides) |->
     IF slides[i].layout # "title"
     THEN Put(slides[i], "slideNumber",
              Decimal(i) \o <<" ", "/", " ">> \o Decimal(Len(slides)))
     ELSE slides[i]]

\* parseTheme on a theme name: the predefined theme, professional for a name
\* that is not predefined.
parseTheme(theme) ==
  CASE theme = "dark" ->
         [primaryColor |-> "#1A1A1A", secondaryColor |-> "#2C2C2C", fontFamily |-> "Helvetica"]
    [] theme = "light" ->
         [primaryColor |-> "#FFFFFF", secondaryColor |-> "#F5F5F5", fontFamily |-> "Calibri"]
    [] theme = "academic" ->
         [primaryColor |-> "#003366", secondaryColor |-> "#005599",
          fontFamily |-> "Times New Roman"]
    [] OTHER ->
         [primaryColor |-> "#2C3E50", secondaryColor |-> "#34495E", fontFamily |-> "Arial"]

S_Presentation == <<"P", "r", "e", "s", "e", "n", "t", "a", "t", "i", "o", "n">>

\* The tail of convert(): the final flush, the presentation and the
\* post-processors.  The options of the model leave theme at its default.
PresentationOf(context, options) ==
  LET slides == flushCurrentSlide(context).slides
      withToc == IF options.includeTableOfContents
                 THEN insertTableOfContents(slides) ELSE slides
      numbered == IF options.slideNumbers THEN addSlideNumbers(withToc) ELSE withToc
      fm == context.metadata
  IN  WithMeta(WithMeta(WithMeta(
        [title |-> OrElse(fm.title, S_Presentation),
         slides |-> numbered,
         theme |-> parseTheme("professional")],
        "author", fm.author), "company", fm.company), "subject", fm.subject)

\* ------------------------------------------------------------------ inputs
\* The texts the tokenizer hands to the handlers in the model.  A comment on
\* a line of its own is a raw HTML block; a paragraph holds one after text.
T_Heading ==
  <<"<", "b", ">", "T", "<", "/", "b", ">">>
P_Plain ==
  <<"p">>
P_Notes ==
  <<"<", "!", "-", "-", " ", "n", "o", "t", "e", "s", ":", " ", "N", " ",
    "-", "-", ">">>
P_ChartDirective ==
  <<"c", " ", "<", "!", "-", "-", " ", "c", "h", "a", "r", "t", ":", " ", "t",
    "y", "p", "e", "=", "\"", "p", "i", "e", "\"", " ", "-", "-", ">">>
P_SlideDirective ==
  <<"c", " ", "<", "!", "-", "-", " ", "s", "l", "i", "d", "e", ":", " ", "t",
    "y", "p", "e", "=", "\"", "c", "u", "s", "t", "o", "m", "\"", " ", "t",
    "i", "t", "l", "e", "=", "\"", "C", "\"", " ", "-", "-", ">">>
P_Csv ==
  <<"h", ",", "s", "\n", "a", ",", "1", "\n", "b", ",", "x">>
L_Item ==
  <<"x">>
L_Nested ==
  <<" ", " ", "<", "i", ">", "y", "<", "/", "i", ">">>
TH_Numeric ==
  <<"<", "t", "r", ">", "\n", "<", "t", "h", ">", "M", "<", "/", "t", "h",
    ">", "\n", "<", "t", "h", ">", "S", "<", "/", "t", "h", ">", "\n", "<",
    "/", "t", "r", ">", "\n">>
TB_Numeric ==
  <<"<", "t", "r", ">", "\n", "<", "t", "d", ">", "J", "<", "/", "t", "d",
    ">", "\n", "<", "t", "d", ">", "1", "0", "<", "/", "t", "d", ">", "\n",
    "<", "/", "t", "r", ">", "\n", "<", "t", "r", ">", "\n", "<", "t", "d",
    ">", "F", "<", "/", "t", "d", ">", "\n", "<", "t", "d", ">", "7", "<",
    "/", "t", "d", ">", "\n", "<", "/", "t", "r", ">", "\n">>
TB_Text ==
  <<"<", "t", "r", ">", "\n", "<", "t", "d", ">", "J", "<", "/", "t", "d",
    ">", "\n", "<", "t", "d", ">", "o", "k", "<", "/", "t", "d", ">", "\n",
    "<", "/", "t", "r", ">", "\n", "<", "t", "r", ">", "\n", "<", "t", "d",
    ">", "<", "b", ">", "F", "<", "/", "b", ">", "<", "/", "t", "d", ">",
    "\n", "<", "t", "d", ">", "3", "<", "/", "t", "d", ">", "\n", "<", "/",
    "t", "r", ">", "\n">>
Q_Quote ==
  <<"<", "p", ">", "q", "<", "/", "p", ">", "\n">>
I_Remote ==
  <<"h", "t", "t", "p", ":", "/", "/", "h", "/", "i", ".", "p", "n", "g">>
I_Httpd ==
  <<"h", "t", "t", "p", "d", "/", "i", ".", "p", "n", "g">>
I_Local ==
  <<"i", ".", "p", "n", "g">>
I_Alt ==
  <<"a", "l", "t">>
K_Code ==
  <<"f", "(", ")">>
K_js ==
  <<"j", "s">>
D_Today ==
  <<"1", "1", "/", "5", "/", "2", "0", "2", "6">>
D_Tomorrow ==
  <<"1", "1", "/", "6", "/", "2", "0", "2", "6">>
FM_Date ==
  <<"2", "0", "2", "5", "-", "0", "1", "-", "1", "5">>
FM_Author ==
  <<"A", "n", "n">>
FM_Title ==
  <<"D", "e", "c", "k">>

\* What new Date().toLocaleDateString() returns when a handler runs.
Dates == {D_Today, D_Tomorrow}

\* The frontmatter of the document: none, or title, author and date.
FM_None ==
  [title |-> None, author |-> None, company |-> None, subject |-> None,
   subtitle |-> None, date |-> None]
FM_Full ==
  [title |-> Some(FM_Title), author |-> Some(FM_Author), company |-> None,
   subject |-> None, subtitle |-> None, date |-> Some(FM_Date)]

\* The conversions of the model, each the options the converter is
\* constructed with and the frontmatter of its document: auto-split at two
\* bullets on a document without frontmatter, and no auto-split, a table of
\* contents and slide numbers on a document with frontmatter.
Conversions ==
  {[options |-> [DefaultOptions EXCEPT !.slidesPerPage = 2],
    frontmatter |-> FM_None],
   [options |-> [DefaultOptions EXCEPT !.autoSplit = FALSE,
                                       !.includeTableOfContents = TRUE,
                                       !.slideNumbers = TRUE],
    frontmatter |-> FM_Full]}

HeadingLevels == 1..4
ParagraphTexts == {P_Plain, P_ChartDirective, P_SlideDirective, P_Csv}
ListItemTexts == {L_Nested}
TableBodies == {TB_Numeric, TB_Text}
ImageTargets == {I_Local}
HtmlTexts == {P_Notes}

CodeBlocks == {[source |-> K_Code, language |-> Some(K_js)]}

\* ------------------------------------------------------------------- state
VARIABLES
  options,        \* this.options of the converter
  context,        \* the ParsingContext of the convert() call
  doc,            \* the blocks the tokenizer has handed to the handlers so far
  pc,             \* "parsing" while marked.parse runs, "done" once convert returned
  presentation,   \* what convert() returned: None before, Some(deck) after
  registered,     \* renderers handed to the shared marked instance by marked.use
  context2,       \* SpecTwin: the ParsingContext of the second convert() call
  pos2,           \* SpecTwin: blocks of doc the second call has consumed
  presentation2,  \* SpecTwin: what the second call returned
  doc2,           \* SpecPair: the blocks of the second call's own document so far
  validation      \* what InputValidator.validate returned: None before, Some(result) after

vars ==
  <<options, context, doc, pc, presentation, registered, context2, pos2, presentation2,
    doc2, validation>>
twinVars == <<registered, context2, pos2, presentation2, doc2>>

\* convert() up to marked.parse: the context is fresh and the renderer of this
\* call is the one the shared marked instance now calls.
Init ==
  /\ \E c \in Conversions :
       /\ options = c.options
       /\ context = NewContext(c.frontmatter)
  /\ doc = <<>>
  /\ pc = "parsing"
  /\ presentation = None
  /\ registered = 1
  /\ context2 = None
  /\ pos2 = 0
  /\ presentation2 = None
  /\ doc2 = <<>>
  /\ validation = None

\* One more block of the document: the handler ran on it.
Handled(block, next) ==
  /\ pc = "parsing"
  /\ Len(doc) < MaxBlocks
  /\ context' = next
  /\ doc' = Append(doc, block)
  /\ UNCHANGED <<options, pc, presentation, twinVars, validation>>

Heading ==
  \E level \in HeadingLevels : \E now \in Dates :
    Handled([kind |-> "heading", text |-> T_Heading, level |-> level],
            heading(context, T_Heading, level, now))

Paragraph ==
  \E text \in ParagraphTexts :
    Handled([kind |-> "paragraph", text |-> text], paragraph(context, options, text))

ListItem ==
  \E text \in ListItemTexts :
    Handled([kind |-> "listitem", text |-> text], listitem(context, options, text))

Table ==
  \E body \in TableBodies :
    Handled([kind |-> "table", header |-> TH_Numeric, body |-> body],
            table(context, TH_Numeric, body))

Image ==
  \E href \in ImageTargets :
    Handled([kind |-> "image", href |-> href, title |-> None, text |-> I_Alt],
            image(context, href, None, I_Alt))

Code ==
  \E block \in CodeBlocks :
    Handled([kind |-> "code", source |-> block.source, language |-> block.language],
            code(context, block.source, block.language))

Blockquote ==
  Handled([kind |-> "blockquote", quote |-> Q_Quote], blockquote(context, Q_Quote))

Hr == Handled([kind |-> "hr"], hr(context))

Html ==
  \E text \in HtmlTexts :
    Handled([kind |-> "html", text |-> text], html(context, text))

\* marked.parse returned: the final flush, the presentation, the
\* post-processors, and convert() returns.
Finish ==
  /\ pc = "parsing"
  /\ context' = flushCurrentSlide(context)
  /\ presentation' = Some(PresentationOf(context, options))
  /\ pc' = "done"
  /\ UNCHANGED <<options, doc, twinVars, validation>>

Next ==
  \/ Heading
  \/ Paragraph
  \/ ListItem
  \/ Table
  \/ Image
  \/ Code
  \/ Blockquote
  \/ Hr
  \/ Html
  \/ Finish

Spec == Init /\ [][Next]_vars

\* ------------------------------------------------- documents of list items
\* The auto-split thresholds of the list documents, the default among them.
Thresholds == {1, 2, 3, DefaultSlidesPerPage}
ItemTexts == {L_Item, L_Nested}

\* A converter with auto-split on, at one of the thresholds, on a document
\* without frontmatter.
InitList ==
  /\ \E t \in Thresholds : options = [DefaultOptions EXCEPT !.slidesPerPage = t]
  /\ context = NewContext(FM_None)
  /\ doc = <<>>
  /\ pc = "parsing"
  /\ presentation = None
  /\ registered = 1
  /\ context2 = None
  /\ pos2 = 0
  /\ presentation2 = None
  /\ doc2 = <<>>
  /\ validation = None

\* The next block of the document is one more list item.
NextItem ==
  /\ pc = "parsing"
  /\ Len(doc) < MaxItems
  /\ \E text \in ItemTexts :
       /\ context' = listitem(context, options, text)
       /\ doc' = Append(doc, [kind |-> "listitem", text |-> text])
  /\ UNCHANGED <<options, pc, presentation, twinVars, validation>>

NextList ==
  \/ NextItem
  \/ Finish

SpecList == InitList /\ [][NextList]_vars

\* ------------------------------------------------------ documents' tables
\* The rows marked renders for a table: every cell's inline content between
\* its tags and a line feed, the cells of a row between <tr> and </tr>.
RECURSIVE Concat(_)
Concat(seqs) == IF seqs = <<>> THEN <<>> ELSE seqs[1] \o Concat(Tail(seqs))
tablecell(content, cellTag) ==
  <<"<">> \o cellTag \o <<">">> \o content \o <<"<", "/">> \o cellTag \o <<">", "\n">>
tablerow(cells, cellTag) ==
  <<"<", "t", "r", ">", "\n">>
    \o Concat([i \in 1..Len(cells) |-> tablecell(cells[i], cellTag)])
    \o <<"<", "/", "t", "r", ">", "\n">>
tablebody(rows) == Concat([i \in 1..Len(rows) |-> tablerow(rows[i], <<"t", "d">>)])

\* The header rows and the data rows of the tables: a row of numbers longer
\* than every header row, shorter rows with a text and with a percentage, and
\* a row with a cell in bold.
TableHeaders == {<<<<"M">>>>, <<<<"M">>, <<"S">>>>, <<<<"M">>, <<"S">>, <<"P">>>>}
TableRows ==
  {<<<<"a">>, <<"1">>, <<"2">>, <<"3">>>>,
   <<<<"b">>, <<"x">>>>,
   <<<<"d">>, <<"7", "%">>>>,
   <<<<"<", "b", ">", "F", "<", "/", "b", ">">>, <<"3">>, <<"4">>>>}

InitTable ==
  /\ options = DefaultOptions
  /\ context = NewContext(FM_None)
  /\ doc = <<>>
  /\ pc = "parsing"
  /\ presentation = None
  /\ registered = 1
  /\ context2 = None
  /\ pos2 = 0
  /\ presentation2 = None
  /\ doc2 = <<>>
  /\ validation = None

\* The document opens with a level-3 heading, or with a list item.
TitleFirst ==
  /\ doc = <<>>
  /\ \E now \in Dates :
       Handled([kind |-> "heading", text |-> T_Heading, level |-> 3],
               heading(context, T_Heading, 3, now))
ItemFirst ==
  /\ doc = <<>>
  /\ Handled([kind |-> "listitem", text |-> L_Item], listitem(context, options, L_Item))

\* The next block is a table of up to MaxRows rows; the block keeps the
\* table's cells next to what marked rendered of them.
TableGiven ==
  /\ pc = "parsing"
  /\ Len(doc) <= 1
  /\ \A k \in 1..Len(doc) : doc[k].kind # "table"
  /\ \E head \in TableHeaders : \E n \in 0..MaxRows : \E rows \in [1..n -> TableRows] :
       LET header == tablerow(head, <<"t", "h">>)
           body == tablebody(rows)
       IN  /\ context' = table(context, header, body)
           /\ doc' = Append(doc, [kind |-> "table", header |-> header, body |-> body,
                                  head |-> head, rows |-> rows])
  /\ UNCHANGED <<options, pc, presentation, twinVars, validation>>

NextTable ==
  \/ TitleFirst
  \/ ItemFirst
  \/ TableGiven

SpecTable == InitTable /\ [][NextTable]_vars

\* ------------------------------------------------ sections of paragraphs
\* The texts of the plain paragraphs of a section.
PlainTexts == {P_Plain, L_Item}

\* The next block of the section, after its level-3 heading, is one more
\* plain paragraph.
NextPlain ==
  /\ pc = "parsing"
  /\ doc # <<>>
  /\ Len(doc) <= MaxItems
  /\ \E text \in PlainTexts :
       /\ context' = paragraph(context, options, text)
       /\ doc' = Append(doc, [kind |-> "paragraph", text |-> text])
  /\ UNCHANGED <<options, pc, presentation, twinVars, validation>>

NextSection ==
  \/ TitleFirst
  \/ NextPlain
  \/ Finish

SpecSection == InitList /\ [][NextSection]_vars

\* ---------------------------------------------------- documents' CSV data
\* The text of CSV lines: the fields of a line joined by commas, the lines by
\* line feeds.
RECURSIVE Join(_, _)
Join(seqs, sep) ==
  IF seqs = <<>> THEN <<>>
  ELSE IF Len(seqs) = 1 THEN seqs[1]
  ELSE seqs[1] \o <<sep>> \o Join(Tail(seqs), sep)
CsvText(lines) == Join([k \in 1..Len(lines) |-> Join(lines[k], ",")], "\n")

\* The header lines and the data lines of the CSV texts: numbers, a field
\* that is no number, a field in spaces, and a line of three fields.
CsvHeaders == {<<<<"h">>>>, <<<<"h">>, <<"s">>>>, <<<<"h">>, <<" ", "s">>, <<"t">>>>}
CsvLines ==
  {<<<<"a">>, <<"1">>>>,
   <<<<"b">>, <<"x">>>>,
   <<<<"c">>, <<" ", "2">>, <<"3">>>>,
   <<<<"d">>, <<"y">>, <<"4", "0">>>>}
CsvLanguages == {S_csv, S_chartLang}

\* The next block is a paragraph of CSV lines, or a fenced block of them
\* tagged csv or chart; the block keeps the fields next to the text.
CsvParagraph ==
  /\ Len(doc) <= 1
  /\ \A k \in 1..Len(doc) : "lines" \notin DOMAIN doc[k]
  /\ \E head \in CsvHeaders : \E n \in 0..MaxLines : \E rows \in [1..n -> CsvLines] :
       LET lines == <<head>> \o rows
       IN  Handled([kind |-> "paragraph", text |-> CsvText(lines), lines |-> lines],
                   paragraph(context, options, CsvText(lines)))
CsvCode ==
  /\ Len(doc) <= 1
  /\ \A k \in 1..Len(doc) : "lines" \notin DOMAIN doc[k]
  /\ \E head \in CsvHeaders : \E n \in 0..MaxLines : \E rows \in [1..n -> CsvLines] :
     \E language \in CsvLanguages :
       LET lines == <<head>> \o rows
       IN  Handled([kind |-> "code", source |-> CsvText(lines),
                    language |-> Some(language), lines |-> lines],
                   code(context, CsvText(lines), Some(language)))

NextCsv ==
  \/ TitleFirst
  \/ ItemFirst
  \/ CsvParagraph
  \/ CsvCode

SpecCsv == InitTable /\ [][NextCsv]_vars

\* -------------------------------------------------- documents' chart data
\* Chart data that cannot become a chart: CSV whose header names no dataset,
\* CSV with a number beyond its header's fields; and a chart directive as a
\* raw HTML block.
C_NoSet ==
  <<"h", "\n", "a", ",", "x">>
C_Break ==
  <<"h", ",", "s", "\n", "a", ",", "1", ",", "2">>
K_json ==
  <<"j", "s", "o", "n">>
H_ChartDirective ==
  <<"<", "!", "-", "-", " ", "c", "h", "a", "r", "t", ":", " ", "t", "y",
    "p", "e", "=", "\"", "p", "i", "e", "\"", " ", "-", "-", ">">>

\* The blocks that are routed to processChartData: fenced JSON, fenced CSV,
\* a fenced block tagged chart that holds neither, and paragraphs of CSV.
ChartBlocks ==
  {[kind |-> "code", source |-> t, language |-> Some(K_json)] :
     t \in {J_Chart, J_Pie, J_NoData, J_Empty, J_Bad}}
  \cup {[kind |-> "code", source |-> t, language |-> Some(S_csv)] :
          t \in {P_Csv, C_NoSet, C_Break}}
  \cup {[kind |-> "code", source |-> K_Code, language |-> Some(S_chartLang)]}
  \cup {[kind |-> "paragraph", text |-> t] : t \in {P_Csv, C_Break}}

\* The conditions under which a handler calls processChartData on a block.
RoutedToChartData(block) ==
  \/ /\ block.kind = "code"
     /\ \/ isChartData(block.source)
        \/ block.language = Some(S_chartLang)
        \/ block.language = Some(S_csv)
  \/ /\ block.kind = "paragraph"
     /\ ~isDirective(block.text)
     /\ isChartData(block.text)

\* A chart directive of type pie, as a raw HTML block or inside a paragraph.
SeedChart ==
  /\ Len(doc) <= 1
  /\ \/ Handled([kind |-> "html", text |-> H_ChartDirective],
                 html(context, H_ChartDirective))
     \/ Handled([kind |-> "paragraph", text |-> P_ChartDirective],
                 paragraph(context, options, P_ChartDirective))

\* The one block of the document that is routed to processChartData.
ChartBlock ==
  /\ \A k \in 1..Len(doc) : ~RoutedToChartData(doc[k])
  /\ \E block \in ChartBlocks :
       Handled(block, IF block.kind = "code"
                      THEN code(context, block.source, block.language)
                      ELSE paragraph(context, options, block.text))

\* A list item after the chart data.
ItemAfter ==
  /\ Len(doc) >= 1
  /\ RoutedToChartData(doc[Len(doc)])
  /\ Handled([kind |-> "listitem", text |-> L_Item], listitem(context, options, L_Item))

NextChart ==
  \/ TitleFirst
  \/ ItemFirst
  \/ SeedChart
  \/ ChartBlock
  \/ ItemAfter
  \/ Finish

SpecChart == InitTable /\ [][NextChart]_vars

\* ------------------------------------------------- documents' metadata
Y_Title ==
  <<"t", "i", "t", "l", "e", ":", " ", "D", "e", "c", "k">>
Y_Quoted ==
  <<"t", "i", "t", "l", "e", ":", " ", "\"", "D", "e", "c", "k", "\"",
    "\n", "a", "u", "t", "h", "o", "r", ":", " ", "A", "n", "n">>
Y_OpenQuote ==
  <<"t", "i", "t", "l", "e", ":", " ", "\"", "D", "e", "c", "k">>
Y_NoColon ==
  <<"t", "i", "t", "l", "e", ":", " ", "D", "e", "c", "k", "\n", "a", "u",
    "t", "h", "o", "r">>
S_author ==
  <<"a", "u", "t", "h", "o", "r">>
S_company ==
  <<"c", "o", "m", "p", "a", "n", "y">>
S_subject ==
  <<"s", "u", "b", "j", "e", "c", "t">>
S_subtitle ==
  <<"s", "u", "b", "t", "i", "t", "l", "e">>
S_date ==
  <<"d", "a", "t", "e">>

\* The mapping keys convert() and the handlers read from the frontmatter.
MetadataKeys ==
  [title |-> S_title, author |-> S_author, company |-> S_company,
   subject |-> S_subject, subtitle |-> S_subtitle, date |-> S_date]

\* One line of a YAML block mapping, "key: value" with a plain or a
\* double-quoted scalar; not ok when the colon is missing or the quote is
\* left open, where the YAML parser raises.
YamlLine(line) ==
  LET i == IndexFrom(line, 1, <<":", " ">>)
      v == Trim(From(line, i + 2))
  IN  IF i = 0 THEN [ok |-> FALSE]
      ELSE IF v # <<>> /\ v[1] = "\""
      THEN IF Len(v) >= 2 /\ v[Len(v)] = "\""
           THEN [ok |-> TRUE, key |-> SubSeq(line, 1, i - 1),
                 value |-> SubSeq(v, 2, Len(v) - 1)]
           ELSE [ok |-> FALSE]
      ELSE [ok |-> TRUE, key |-> SubSeq(line, 1, i - 1), value |-> v]

\* matter(markdownContent) on a document whose leading metadata block is raw
\* (None without one): the data of the block, or the parser's exception.
matter(raw) ==
  IF raw = None THEN [threw |-> FALSE, data |-> FM_None]
  ELSE LET lines == Split(raw[1], "\n")
           parsed == [k \in 1..Len(lines) |-> YamlLine(lines[k])]
           valueOf(name) ==
             LET at == {k \in 1..Len(lines) : parsed[k].key = name}
             IN  IF at = {} THEN None ELSE Some(parsed[MaxOf(at)].value)
       IN  IF \E k \in 1..Len(lines) : ~parsed[k].ok
           THEN [threw |-> TRUE]
           ELSE [threw |-> FALSE,
                 data |-> [f \in DOMAIN MetadataKeys |-> valueOf(MetadataKeys[f])]]

\* The leading metadata blocks of the model: none, two well-formed ones, one
\* with an open quote and one with a key that lacks its colon.
MetadataBlocks ==
  {None, Some(Y_Title), Some(Y_Quoted), Some(Y_OpenQuote), Some(Y_NoColon)}

\* convert() was called and has not run yet.
InitMatter ==
  /\ options = DefaultOptions
  /\ context = None
  /\ doc = <<>>
  /\ pc = "called"
  /\ presentation = None
  /\ registered = 0
  /\ context2 = None
  /\ pos2 = 0
  /\ presentation2 = None
  /\ doc2 = <<>>
  /\ validation = None

\* The first statement of convert(): matter() parses the leading block and
\* the context is made from its data; an exception of matter() leaves
\* convert(), whose promise is rejected.  doc keeps the block as its first
\* element.
Matter ==
  /\ pc = "called"
  /\ \E raw \in MetadataBlocks :
       LET result == matter(raw)
       IN  /\ doc' = <<[kind |-> "frontmatter", raw |-> raw]>>
           /\ IF result.threw
              THEN /\ pc' = "failed"
                   /\ UNCHANGED <<context, registered>>
              ELSE /\ pc' = "parsing"
                   /\ context' = NewContext(result.data)
                   /\ registered' = registered + 1
  /\ UNCHANGED <<options, presentation, context2, pos2, presentation2, doc2, validation>>

NextMatter == Matter \/ Heading \/ ListItem \/ Finish

SpecMatter == InitMatter /\ [][NextMatter]_vars

\* ----------------------------------------------- documents' directives
D_SlideBare ==
  <<"<", "!", "-", "-", " ", "s", "l", "i", "d", "e", ":", " ", "c", "u",
    "s", "t", "o", "m", " ", "-", "-", ">">>
D_NotesBlank ==
  <<"<", "!", "-", "-", " ", "n", "o", "t", "e", "s", ":", " ", "-", "-",
    ">">>
D_NotesShut ==
  <<"<", "!", "-", "-", " ", "n", "o", "t", "e", "s", ":", "-", "-", ">">>
D_ChartBare ==
  <<"<", "!", "-", "-", " ", "c", "h", "a", "r", "t", ":", " ", "p", "i",
    "e", " ", "-", "-", ">">>
D_Fence ==
  <<":", ":", ":", "c", "h", "a", "r", "t", " ", "p", "i", "e">>
S_Lead ==
  <<"c", " ">>

\* Directives from which nothing can be parsed: a slide and a chart directive
\* without a key="value" pair, a notes directive of white space, one with
\* nothing at all before the closing mark, and the fence form, for which
\* processDirective has no expression.
BareComments == {D_SlideBare, D_NotesBlank, D_NotesShut, D_ChartBare}

\* The blocks that deliver them: each comment on a line of its own (a raw
\* HTML block) and after a word in a paragraph, the fence as a paragraph.
MalformedBlocks ==
  {[kind |-> "html", text |-> d] : d \in BareComments}
    \cup {[kind |-> "paragraph", text |-> S_Lead \o d] : d \in BareComments}
    \cup {[kind |-> "paragraph", text |-> D_Fence]}

\* One of them reaches its handler.
Malformed ==
  \E block \in MalformedBlocks :
    Handled(block, IF block.kind = "html" THEN html(context, block.text)
                   ELSE paragraph(context, options, block.text))

NextDirective == TitleFirst \/ ItemFirst \/ Hr \/ Html \/ Malformed \/ Finish

SpecDirective == InitTable /\ [][NextDirective]_vars

\* ------------------------------------------ documents' slide directives
D_Custom ==
  <<"<", "!", "-", "-", " ", "s", "l", "i", "d", "e", ":", " ", "t", "y",
    "p", "e", "=", "\"", "c", "u", "s", "t", "o", "m", "\"", " ", "-", "-",
    ">">>
D_CustomTitled ==
  <<"<", "!", "-", "-", " ", "s", "l", "i", "d", "e", ":", " ", "t", "y",
    "p", "e", "=", "\"", "c", "u", "s", "t", "o", "m", "\"", " ", "t", "i",
    "t", "l", "e", "=", "\"", "C", "\"", " ", "-", "-", ">">>
D_OtherType ==
  <<"<", "!", "-", "-", " ", "s", "l", "i", "d", "e", ":", " ", "t", "y",
    "p", "e", "=", "\"", "t", "e", "x", "t", "\"", " ", "t", "i", "t", "l",
    "e", "=", "\"", "C", "\"", " ", "-", "-", ">">>

\* Slide directives: of type custom without and with a title, of another
\* type, and without a type; each as a raw HTML block and inside a paragraph.
SlideComments == {D_Custom, D_CustomTitled, D_OtherType, D_SlideBare}
SlideBlocks ==
  {[kind |-> "html", text |-> d] : d \in SlideComments}
    \cup {[kind |-> "paragraph", text |-> S_Lead \o d] : d \in SlideComments}

\* One of them reaches its handler.
SlideDirective ==
  \E block \in SlideBlocks :
    Handled(block, IF block.kind = "html" THEN html(context, block.text)
                   ELSE paragraph(context, options, block.text))

NextSlide == TitleFirst \/ ItemFirst \/ Html \/ SlideDirective \/ Finish

SpecSlide == InitTable /\ [][NextSlide]_vars

\* ------------------------------------------- a heading and its list items
\* A document that is a run of list items, under a level-3 heading or not.
NextRun == TitleFirst \/ NextItem \/ Finish

SpecRun == InitList /\ [][NextRun]_vars

\* ------------------------------------------------- images and code blocks
\* The targets, titles, sources and language tags the documents of this
\* part use: a web address, a file, and a file whose name begins with http;
\* code that is no chart data and text that is; no tag, a language, and the
\* two tags that ask for a chart.
MediaTargets == {I_Local, I_Httpd, I_Remote}
MediaTitles == {None, Some(L_Item)}
MediaSources == {K_Code, P_Csv}
MediaLanguages == {None, Some(K_js), Some(S_csv), Some(S_chartLang)}

\* The next block is an image.
ImageGiven ==
  \E href \in MediaTargets : \E title \in MediaTitles :
    Handled([kind |-> "image", href |-> href, title |-> title, text |-> I_Alt],
            image(context, href, title, I_Alt))

\* The next block is a code block.
CodeGiven ==
  \E source \in MediaSources : \E language \in MediaLanguages :
    Handled([kind |-> "code", source |-> source, language |-> language],
            code(context, source, language))

NextMedia == TitleFirst \/ ItemFirst \/ ImageGiven \/ CodeGiven \/ Finish

SpecMedia == InitTable /\ [][NextMedia]_vars

\* ------------------------------------------------------------ the validator
\* The field names of the validator's errors.
F_slides ==
  <<"s", "l", "i", "d", "e", "s", "[">>
F_title ==
  <<".", "t", "i", "t", "l", "e">>
F_bullets ==
  <<".", "b", "u", "l", "l", "e", "t", "s">>
F_image ==
  <<".", "i", "m", "a", "g", "e">>
F_chartType ==
  <<".", "c", "h", "a", "r", "t", "T", "y", "p", "e">>
F_data ==
  <<".", "d", "a", "t", "a">>
F_labels ==
  <<".", "d", "a", "t", "a", ".", "l", "a", "b", "e", "l", "s">>
F_datasets ==
  <<".", "d", "a", "t", "a", ".", "d", "a", "t", "a", "s", "e", "t", "s">>
F_label ==
  <<".", "l", "a", "b", "e", "l">>
F_tableData ==
  <<".", "t", "a", "b", "l", "e", "D", "a", "t", "a">>
F_content ==
  <<".", "c", "o", "n", "t", "e", "n", "t">>
F_elements ==
  <<".", "e", "l", "e", "m", "e", "n", "t", "s">>
F_backgroundColor ==
  <<".", "b", "a", "c", "k", "g", "r", "o", "u", "n", "d", "C", "o", "l",
    "o", "r">>
F_root ==
  <<"r", "o", "o", "t">>
F_slidesPath ==
  <<"/", "s", "l", "i", "d", "e", "s">>
F_fontSizePath ==
  <<"/", "t", "h", "e", "m", "e", "/", "f", "o", "n", "t", "S", "i", "z",
    "e">>
F_themeDot ==
  <<"t", "h", "e", "m", "e", ".">>
F_fontSize ==
  <<"f", "o", "n", "t", "S", "i", "z", "e">>
F_primaryColor ==
  <<"p", "r", "i", "m", "a", "r", "y", "C", "o", "l", "o", "r">>
F_secondaryColor ==
  <<"s", "e", "c", "o", "n", "d", "a", "r", "y", "C", "o", "l", "o", "r">>
F_themeBackground ==
  <<"b", "a", "c", "k", "g", "r", "o", "u", "n", "d", "C", "o", "l", "o",
    "r">>
F_accentColor ==
  <<"a", "c", "c", "e", "n", "t", "C", "o", "l", "o", "r">>

\* `slides[${index}]`
Prefix(index) == F_slides \o Decimal(index) \o <<"]">>

\* obj.key exists (is not undefined).
Has(obj, key) == key \in DOMAIN obj

\* !obj.key for a string: undefined or the empty string.
NoText(obj, key) == ~Has(obj, key) \/ obj[key] = <<>>

\* One error when the condition holds, as the code's if ... errors.push(...).
ErrorIf(condition, field, message) ==
  IF condition THEN <<[field |-> field, message |-> message]>> ELSE <<>>

\* String.prototype.toLowerCase on the letters A to Z.
UpperCase == <<"A", "B", "C", "D", "E", "F", "G", "H", "I", "J", "K", "L", "M",
               "N", "O", "P", "Q", "R", "S", "T", "U", "V", "W", "X", "Y", "Z">>
LowerCase == <<"a", "b", "c", "d", "e", "f", "g", "h", "i", "j", "k", "l", "m",
               "n", "o", "p", "q", "r", "s", "t", "u", "v", "w", "x", "y", "z">>
toLowerCase(s) ==
  [i \in 1..Len(s) |->
     IF \E k \in 1..Len(UpperCase) : UpperCase[k] = s[i]
     THEN LowerCase[CHOOSE k \in 1..Len(UpperCase) : UpperCase[k] = s[i]]
     ELSE s[i]]

\* [0-9A-Fa-f]
IsHexDigit(c) ==
  IsDigit(c) \/ c \in {"A", "B", "C", "D", "E", "F", "a", "b", "c", "d", "e", "f"}

validColorNames ==
  {<<"b", "l", "a", "c", "k">>, <<"w", "h", "i", "t", "e">>,
   <<"r", "e", "d">>, <<"g", "r", "e", "e", "n">>, <<"b", "l", "u", "e">>,
   <<"y", "e", "l", "l", "o", "w">>, <<"c", "y", "a", "n">>,
   <<"m", "a", "g", "e", "n", "t", "a">>, <<"g", "r", "a", "y">>,
   <<"g", "r", "e", "y">>, <<"o", "r", "a", "n", "g", "e">>,
   <<"p", "u", "r", "p", "l", "e">>, <<"b", "r", "o", "w", "n">>,
   <<"p", "i", "n", "k">>, <<"l", "i", "m", "e">>, <<"n", "a", "v", "y">>,
   <<"t", "e", "a", "l">>, <<"s", "i", "l", "v", "e", "r">>,
   <<"g", "o", "l", "d">>, <<"i", "n", "d", "i", "g", "o">>,
   <<"v", "i", "o", "l", "e", "t">>,
   <<"t", "r", "a", "n", "s", "p", "a", "r", "e", "n", "t">>}

\* isValidColor: #RGB, #RRGGBB, #RRGGBBAA, rgb(...) or rgba(...) on one line,
\* or one of the colour names in any case.
isValidColor(color) ==
  \/ /\ Len(color) \in {4, 7, 9}
     /\ color[1] = "#"
     /\ \A i \in 2..Len(color) : IsHexDigit(color[i])
  \/ /\ \/ StartsWithAt(color, 1, <<"r", "g", "b", "(">>)
        \/ StartsWithAt(color, 1, <<"r", "g", "b", "a", "(">>)
     /\ color[Len(color)] = ")"
     /\ \A i \in 1..Len(color) : color[i] # "\n"
  \/ toLowerCase(color) \in validColorNames

validChartTypes ==
  {<<"b", "a", "r">>, <<"l", "i", "n", "e">>, <<"p", "i", "e">>, <<"a", "r", "e", "a">>,
   <<"s", "c", "a", "t", "t", "e", "r">>, <<"d", "o", "u", "g", "h", "n", "u", "t">>,
   <<"r", "a", "d", "a", "r">>}

isValidChartType(type) == type \in validChartTypes

\* validateChartData; labels, datasets and a dataset's data are arrays when
\* they are present.
validateChartData(data, prefix) ==
  LET ofDataset(dataset, index) ==
        LET at == prefix \o F_datasets \o <<"[">> \o Decimal(index) \o <<"]">>
        IN  ErrorIf(NoText(dataset, "label"), at \o F_label, "Dataset must have a label")
            \o (IF ~Has(dataset, "data")
                THEN ErrorIf(TRUE, at \o F_data, "Dataset must have data array")
                ELSE ErrorIf(Has(data, "labels") /\ Len(dataset.data) # Len(data.labels),
                             at \o F_data,
                             "Dataset data length must match labels length"))
  IN  ErrorIf(~Has(data, "labels"), prefix \o F_labels, "Chart data must have labels array")
      \o (IF ~Has(data, "datasets") \/ Len(data.datasets) = 0
          THEN ErrorIf(TRUE, prefix \o F_datasets,
                       "Chart data must have at least one dataset")
          ELSE Concat([i \in 1..Len(data.datasets) |-> ofDataset(data.datasets[i], i - 1)]))

\* The row errors of validateTableData from the row of the given index on,
\* with the column count the rows before it have set (None for null).
RECURSIVE RowErrors(_, _, _, _)
RowErrors(tableData, prefix, index, columnCount) ==
  IF index >= Len(tableData) THEN <<>>
  ELSE LET row == tableData[index + 1]
       IN  IF columnCount = None
           THEN RowErrors(tableData, prefix, index + 1, Some(Len(row)))
           ELSE ErrorIf(Len(row) # columnCount[1],
                        prefix \o F_tableData \o <<"[">> \o Decimal(index) \o <<"]">>,
                        "Row has another number of columns than expected")
                \o RowErrors(tableData, prefix, index + 1, columnCount)

\* A validateTableData that compares every row with the row before it.
validateTableData_Adjacent(tableData, prefix) ==
  LET ofRow(row, index) ==
        ErrorIf(index > 0 /\ Len(row) # Len(tableData[IF index > 0 THEN index ELSE 1]),
                prefix \o F_tableData \o <<"[">> \o Decimal(index) \o <<"]">>,
                "Row has another number of columns than expected")
  IN  Concat([i \in 1..Len(tableData) |-> ofRow(tableData[i], i - 1)])

\* validateTableData; tableData is an array of arrays.
validateTableData(tableData, prefix) == RowErrors(tableData, prefix, 0, None)

\* validateSlide
validateSlide(slide, index) ==
  LET prefix == Prefix(index)
      noTitle(message) == ErrorIf(NoText(slide, "title"), prefix \o F_title, message)
      ofLayout ==
        IF ~Has(slide, "layout") THEN <<>>
        ELSE CASE slide.layout = "title" -> noTitle("Title slide must have a title")
               [] slide.layout = "text" ->
                    noTitle("Text slide must have a title")
                    \o ErrorIf(~Has(slide, "bullets") \/ Len(slide.bullets) = 0,
                               prefix \o F_bullets,
                               "Text slide must have at least one bullet point")
               [] slide.layout = "image" ->
                    noTitle("Image slide must have a title")
                    \o ErrorIf(NoText(slide, "imagePath") /\ NoText(slide, "imageUrl"),
                               prefix \o F_image,
                               "Image slide must have either imagePath or imageUrl")
               [] slide.layout = "chart" ->
                    noTitle("Chart slide must have a title")
                    \o (IF NoText(slide, "chartType")
                        THEN ErrorIf(TRUE, prefix \o F_chartType,
                                     "Chart slide must specify a chart type")
                        ELSE ErrorIf(~isValidChartType(slide.chartType),
                                     prefix \o F_chartType, "Invalid chart type"))
                    \o (IF ~Has(slide, "data")
                        THEN ErrorIf(TRUE, prefix \o F_data, "Chart slide must have data")
                        ELSE validateChartData(slide.data, prefix))
               [] slide.layout = "table" ->
                    noTitle("Table slide must have a title")
                    \o (IF ~Has(slide, "tableData") \/ Len(slide.tableData) = 0
                        THEN ErrorIf(TRUE, prefix \o F_tableData,
                                     "Table slide must have table data")
                        ELSE validateTableData(slide.tableData, prefix))
               [] slide.layout = "notes" ->
                    noTitle("Notes slide must have a title")
                    \o ErrorIf(NoText(slide, "content"), prefix \o F_content,
                               "Notes slide must have content")
               [] slide.layout = "custom" ->
                    ErrorIf(~Has(slide, "elements") \/ Len(slide.elements) = 0,
                            prefix \o F_elements,
                            "Custom slide must have at least one element")
               [] OTHER -> <<>>
  IN  ofLayout
      \o (IF NoText(slide, "backgroundColor") THEN <<>>
          ELSE ErrorIf(~isValidColor(slide.backgroundColor),
                       prefix \o F_backgroundColor, "Invalid color format"))

\* validateTheme
validateTheme(theme) ==
  LET colorFields == <<[key |-> "primaryColor", name |-> F_primaryColor],
                       [key |-> "secondaryColor", name |-> F_secondaryColor],
                       [key |-> "backgroundColor", name |-> F_themeBackground],
                       [key |-> "accentColor", name |-> F_accentColor]>>
      ofField(field, index) ==
        IF NoText(theme, field.key) THEN <<>>
        ELSE ErrorIf(~isValidColor(theme[field.key]), F_themeDot \o field.name,
                     "Invalid color format")
  IN  Concat([i \in 1..Len(colorFields) |-> ofField(colorFields[i], i - 1)])
      \o (IF Has(theme, "fontSize") /\ theme.fontSize # 0
          THEN ErrorIf(theme.fontSize < 8 \/ theme.fontSize > 72,
                       F_themeDot \o F_fontSize, "Font size must be between 8 and 72")
          ELSE <<>>)

\* The layouts of PRESENTATION_SCHEMA.
SchemaLayouts == {"title", "text", "image", "chart", "table", "notes", "custom"}

\* this.validateSchema(presentation), the compiled PRESENTATION_SCHEMA, with
\* allErrors, on a presentation whose fields have the types of Presentation:
\* the errors of required, minItems, enum and minimum/maximum, each with the
\* field validate() gives it (instancePath, or root for the empty path).
validateSchema(given) ==
  LET ofSlide(slide, index) ==
        LET path == F_slidesPath \o <<"/">> \o Decimal(index)
        IN  IF ~Has(slide, "layout")
            THEN ErrorIf(TRUE, path, "must have required property 'layout'")
            ELSE ErrorIf(slide.layout \notin SchemaLayouts,
                         path \o <<"/", "l", "a", "y", "o", "u", "t">>,
                         "must be equal to one of the allowed values")
  IN  (IF ~Has(given, "slides")
       THEN ErrorIf(TRUE, F_root, "must have required property 'slides'")
       ELSE ErrorIf(Len(given.slides) < 1, F_slidesPath,
                    "must NOT have fewer than 1 items")
            \o Concat([i \in 1..Len(given.slides) |-> ofSlide(given.slides[i], i - 1)]))
      \o (IF Has(given, "theme") /\ Has(given.theme, "fontSize")
          THEN ErrorIf(given.theme.fontSize < 8, F_fontSizePath, "must be >= 8")
               \o ErrorIf(given.theme.fontSize > 72, F_fontSizePath, "must be <= 72")
          ELSE <<>>)

\* InputValidator.validate: the ValidationResult, errors undefined when none
\* was collected.
validate(given) ==
  LET errors ==
        validateSchema(given)
        \o (IF Has(given, "slides")
            THEN Concat([i \in 1..Len(given.slides) |-> validateSlide(given.slides[i], i - 1)])
            ELSE ErrorIf(TRUE, <<"s", "l", "i", "d", "e", "s">>,
                         "Presentation must contain at least one slide"))
        \o (IF Has(given, "theme") THEN validateTheme(given.theme) ELSE <<>>)
  IN  IF Len(errors) = 0 THEN [valid |-> TRUE]
      ELSE [valid |-> FALSE, errors |-> errors]

\* The presentations handed to the validator: up to MaxSlides slides, each
\* one of the slides below, with or without a theme.  The chart slides have
\* two labels and datasets of one, two and three values; the table slides
\* have rows of one and of two cells.
MaxSlides == 2

V_Labels == <<L_Item, L_Item>>
V_Short == [label |-> S_Content, data |-> <<1>>]
V_Exact == [label |-> S_Content, data |-> <<1, 2>>]
V_Long == [label |-> S_Content, data |-> <<1, 2, 3>>]
V_Unlabelled == [data |-> <<1, 2>>]
V_Datasets ==
  {<<>>, <<V_Exact>>, <<V_Short>>, <<V_Exact, V_Long>>, <<V_Short, V_Long>>,
   <<V_Exact, V_Exact>>, <<V_Unlabelled>>}
V_One == <<L_Item>>
V_Two == <<L_Item, L_Item>>
V_Tables ==
  {<<>>, <<V_Two>>, <<V_Two, V_Two>>, <<V_Two, V_One>>, <<V_One, V_Two, V_One>>,
   <<V_Two, V_One, V_One>>}
V_BadColor == <<"#", "2", "C", "3", "E", "5">>

GivenSlides ==
  {[layout |-> "chart", title |-> S_Chart, chartType |-> S_bar,
    data |-> [labels |-> V_Labels, datasets |-> datasets]] : datasets \in V_Datasets}
  \cup {[layout |-> "chart", title |-> S_Chart, chartType |-> S_bar],
        [layout |-> "chart", chartType |-> S_pie, data |-> [datasets |-> <<V_Exact>>]]}
  \cup {[layout |-> "table", title |-> S_DataTable, tableData |-> tableData] :
          tableData \in V_Tables}
  \cup {[layout |-> "text", title |-> S_Content, bullets |-> <<L_Item>>],
        [layout |-> "text", title |-> S_Content, bullets |-> <<>>],
        [layout |-> "title", title |-> S_Content, backgroundColor |-> S_SectionColor],
        [layout |-> "title", title |-> S_Content, backgroundColor |-> V_BadColor]}

GivenThemes ==
  {[primaryColor |-> S_SectionColor, fontSize |-> 14],
   [primaryColor |-> V_BadColor, fontSize |-> 80]}

\* A presentation without slides has been read from the JSON input.
InitValidate ==
  /\ options = DefaultOptions
  /\ context = NewContext(FM_None)
  /\ doc = <<>>
  /\ pc = "loaded"
  /\ presentation = Some([title |-> S_Presentation, slides |-> <<>>])
  /\ registered = 0
  /\ context2 = None
  /\ pos2 = 0
  /\ presentation2 = None
  /\ doc2 = <<>>
  /\ validation = None

\* The input has one more slide.
GivenSlide ==
  /\ pc = "loaded"
  /\ Len(presentation[1].slides) < MaxSlides
  /\ \E slide \in GivenSlides :
       presentation' = Some([presentation[1] EXCEPT !.slides = Append(@, slide)])
  /\ UNCHANGED <<options, context, doc, pc, twinVars, validation>>

\* The input has a theme.
GivenTheme ==
  /\ pc = "loaded"
  /\ ~Has(presentation[1], "theme")
  /\ \E theme \in GivenThemes :
       presentation' = Some(Put(presentation[1], "theme", theme))
  /\ UNCHANGED <<options, context, doc, pc, twinVars, validation>>

\* validator.validate(presentation)
Validate ==
  /\ pc = "loaded"
  /\ validation' = Some(validate(presentation[1]))
  /\ pc' = "validated"
  /\ UNCHANGED <<options, context, doc, presentation, twinVars>>

NextValidate == GivenSlide \/ GivenTheme \/ Validate

SpecValidate == InitValidate /\ [][NextValidate]_vars

\* ------------------------------------------------------------ the stream
\* marked.parse on one block: the renderer callback of the block's kind.
Dispatch(ctx, opts, block, now) ==
  CASE block.kind = "heading" -> heading(ctx, block.text, block.level, now)
    [] block.kind = "paragraph" -> paragraph(ctx, opts, block.text)
    [] block.kind = "listitem" -> listitem(ctx, opts, block.text)
    [] block.kind = "table" -> table(ctx, block.header, block.body)
    [] block.kind = "image" -> image(ctx, block.href, block.title, block.text)
    [] block.kind = "code" -> code(ctx, block.source, block.language)
    [] block.kind = "blockquote" -> blockquote(ctx, block.quote)
    [] block.kind = "hr" -> hr(ctx)
    [] block.kind = "html" -> html(ctx, block.text)

\* The context after the handlers ran on the blocks in order, every clock
\* read giving D_Today.
RECURSIVE Replay(_, _, _)
Replay(ctx, opts, blocks) ==
  IF blocks = <<>> THEN ctx
  ELSE Replay(Dispatch(ctx, opts, blocks[1], D_Today), opts, Tail(blocks))

\* The context of this conversion before its k-th block was handled.
Before(k) == Replay(NewContext(context.metadata), options, SubSeq(doc, 1, k - 1))

IsHeading(block, level) == block.kind = "heading" /\ block.level = level

\* ------------------------------------------------ the same document twice
\* The blocks of the documents that are converted twice.
TwinBlocks ==
  {[kind |-> "heading", text |-> T_Heading, level |-> 1],
   [kind |-> "heading", text |-> T_Heading, level |-> 3],
   [kind |-> "listitem", text |-> L_Nested],
   [kind |-> "paragraph", text |-> P_Plain]}

\* The first conversion handles one more block; the clock reads what it reads.
FirstBlock ==
  /\ pc = "parsing"
  /\ Len(doc) < MaxTwinBlocks
  /\ \E block \in TwinBlocks : \E now \in Dates :
       /\ context' = Dispatch(context, options, block, now)
       /\ doc' = Append(doc, block)
  /\ UNCHANGED <<options, pc, presentation, twinVars, validation>>

\* convert() is called again on the same input, on the same converter: a
\* fresh context, and one more renderer handed to the shared marked instance,
\* whose handlers (they all return a string) are the ones marked calls now.
ConvertAgain ==
  /\ pc = "done"
  /\ context2 = None
  /\ context2' = Some(NewContext(context.metadata))
  /\ registered' = registered + 1
  /\ pos2' = 0
  /\ UNCHANGED <<options, context, doc, pc, presentation, presentation2, doc2, validation>>

\* The second conversion handles its next block, at its own clock reading.
BlockAgain ==
  /\ context2 # None
  /\ presentation2 = None
  /\ pos2 < Len(doc)
  /\ \E now \in Dates :
       context2' = Some(Dispatch(context2[1], options, doc[pos2 + 1], now))
  /\ pos2' = pos2 + 1
  /\ UNCHANGED <<options, context, doc, pc, presentation, registered, presentation2, doc2,
               validation>>

\* The second conversion returns.
FinishAgain ==
  /\ context2 # None
  /\ presentation2 = None
  /\ pos2 = Len(doc)
  /\ context2' = Some(flushCurrentSlide(context2[1]))
  /\ presentation2' = Some(PresentationOf(context2[1], options))
  /\ UNCHANGED <<options, context, doc, pc, presentation, registered, pos2, doc2, validation>>

NextTwin ==
  \/ FirstBlock
  \/ Finish
  \/ ConvertAgain
  \/ BlockAgain
  \/ FinishAgain

SpecTwin == Init /\ [][NextTwin]_vars

\* ------------------------------------------------- two documents in turn
\* The renderer whose handlers marked calls when n renderers were handed to
\* marked.use: a handler registered later is tried first, and the earlier
\* ones are asked only when it returns false; the handlers of this converter
\* all return '', so it is always the last one.
Called_First(n) == 1
Called(n) == n

\* convert() is called for another document, on the same marked instance.
\* convert() holds no await, so a call that was started runs to its return
\* before any other call's code does, also when the two are started together.
\* Of the two frontmatters of the model the other document has the one the
\* first has not.
ConvertOther ==
  /\ pc = "done"
  /\ context2 = None
  /\ context2' = Some(NewContext(IF context.metadata = FM_None THEN FM_Full ELSE FM_None))
  /\ registered' = registered + 1
  /\ UNCHANGED <<options, context, doc, pc, presentation, pos2, presentation2, doc2, validation>>

\* marked.parse of the second call hands a block to the handlers marked
\* calls; they write to the context their renderer was created with.
OtherBlock ==
  /\ context2 # None
  /\ presentation2 = None
  /\ Len(doc2) < MaxOtherBlocks
  /\ \E block \in TwinBlocks : \E now \in Dates :
       /\ doc2' = Append(doc2, block)
       /\ IF Called(registered) = 2
          THEN /\ context2' = Some(Dispatch(context2[1], options, block, now))
               /\ UNCHANGED context
          ELSE /\ context' = Dispatch(context, options, block, now)
               /\ UNCHANGED context2
  /\ UNCHANGED <<options, doc, pc, presentation, registered, pos2, presentation2, validation>>

\* The second call returns.
OtherFinish ==
  /\ context2 # None
  /\ presentation2 = None
  /\ context2' = Some(flushCurrentSlide(context2[1]))
  /\ presentation2' = Some(PresentationOf(context2[1], options))
  /\ UNCHANGED <<options, context, doc, pc, presentation, registered, pos2, doc2, validation>>

NextPair ==
  \/ FirstBlock
  \/ Finish
  \/ ConvertOther
  \/ OtherBlock
  \/ OtherFinish

SpecPair == Init /\ [][NextPair]_vars

\* The text slides of a sequence of slides, in order.
RECURSIVE TextSlides(_)
TextSlides(slides) ==
  IF slides = <<>> THEN <<>>
  ELSE (IF slides[1].layout = "text" THEN <<slides[1]>> ELSE <<>>)
         \o TextSlides(Tail(slides))

\* ------------------------------------------------------------------ claims
\* C1: no slide of layout text in the output has an empty bullets sequence,
\* neither among the slides the handlers and the final flush emitted nor in
\* the returned deck; and for a document made of headings only (so every
\* level-3 heading is followed by a heading or by the end of the document)
\* the handlers and the final flush emit no text slide at all.
C1_NoEmptyTextSlide ==
  LET nonEmpty(slides) ==
        \A i \in 1..Len(slides) :
          slides[i].layout = "text" =>
            "bullets" \in DOMAIN slides[i] /\ Len(slides[i].bullets) > 0
      headingsOnly == \A k \in 1..Len(doc) : doc[k].kind = "heading"
  IN  /\ nonEmpty(context.slides)
      /\ headingsOnly => TextSlides(context.slides) = <<>>
      /\ presentation # None => nonEmpty(presentation[1].slides)

\* C1 witness: a level-3 heading followed by a heading, then a level-3
\* heading followed by the end of the document, converted to the end.
C1_Witness ==
  /\ pc = "done"
  /\ Len(doc) = 3
  /\ IsHeading(doc[1], 3)
  /\ doc[2].kind = "heading"
  /\ IsHeading(doc[3], 3)
  /\ context.currentSlide = None

\* The bullets, and the levels, of a sequence of slides, concatenated in order.
RECURSIVE AllBullets(_)
AllBullets(slides) ==
  IF slides = <<>> THEN <<>> ELSE slides[1].bullets \o AllBullets(Tail(slides))
RECURSIVE AllLevels(_)
AllLevels(slides) ==
  IF slides = <<>> THEN <<>> ELSE slides[1].level \o AllLevels(Tail(slides))

\* C2: with auto-split on and threshold T >= 1, a document of N >= 1 list
\* items converts to exactly ceil(N / T) slides, all of layout text, each with
\* at most T bullets and a level array as long as its bullets; the bullets
\* concatenated in slide order are the N cleaned items in document order and
\* the levels are the items' indent levels (N < T: one slide of N bullets).
C2_ListSplit ==
  (pc = "done" /\ Len(doc) >= 1) =>
    LET N == Len(doc)
        T == options.slidesPerPage
        slides == presentation[1].slides
    IN  /\ Len(slides) = (N + T - 1) \div T
        /\ N < T => Len(slides) = 1 /\ Len(slides[1].bullets) = N
        /\ \A i \in 1..Len(slides) :
             /\ slides[i].layout = "text"
             /\ Len(slides[i].bullets) <= T
             /\ "level" \in DOMAIN slides[i]
             /\ Len(slides[i].level) = Len(slides[i].bullets)
        /\ AllBullets(slides) = [k \in 1..N |-> cleanText(doc[k].text)]
        /\ AllLevels(slides) = [k \in 1..N |-> detectIndentLevel(doc[k].text)]
        /\ slides = context.slides

\* C2 witness: seven items at the default threshold, six bullets on the first
\* slide and one on the second.
C2_Witness ==
  /\ pc = "done"
  /\ Len(doc) = 7
  /\ options.autoSplit
  /\ options.slidesPerPage = DefaultSlidesPerPage
  /\ Len(presentation[1].slides) = 2
  /\ Len(presentation[1].slides[2].bullets) = 1

\* C3: a document that is exactly one level-1 heading converts to a deck of
\* exactly one slide, of layout title, titled with the cleaned heading text.
C3_SingleTitleSlide ==
  (pc = "done" /\ Len(doc) = 1 /\ IsHeading(doc[1], 1)) =>
    /\ Len(presentation[1].slides) = 1
    /\ presentation[1].slides[1].layout = "title"
    /\ presentation[1].slides[1].title = cleanText(doc[1].text)
    /\ presentation[1].slides[1].title = <<"T">>

\* C3 witness: such a document converted with the table of contents and the
\* slide numbers switched on.
C3_Witness ==
  /\ pc = "done"
  /\ Len(doc) = 1
  /\ IsHeading(doc[1], 1)
  /\ options.includeTableOfContents
  /\ options.slideNumbers

\* C4 as claimed: two conversions of the same input with the same options
\* return the same deck, whatever the clock read in each.
C4_SameDeck ==
  presentation2 # None => presentation2 = presentation

\* A deck with the date field of its slides blanked.
Undated(deck) ==
  [deck EXCEPT !.slides =
     [i \in 1..Len(@) |->
        IF "date" \in DOMAIN @[i] THEN [@[i] EXCEPT !.date = <<>>] ELSE @[i]]]

\* C4 amended: the two decks are equal in every field but the date of the
\* title slides of level-1 headings, which is the clock's date when the
\* frontmatter has none; with a date in the frontmatter, or without a level-1
\* heading, the decks are equal.  The renderers registered by earlier
\* conversions change nothing.
C4_SameDeckButClockDate ==
  presentation2 # None =>
    /\ registered = 2
    /\ Undated(presentation2[1]) = Undated(presentation[1])
    /\ (\/ context.metadata.date # None
        \/ \A k \in 1..Len(doc) : ~IsHeading(doc[k], 1))
         => presentation2 = presentation

\* C4 witness: both conversions returned, the document has a level-1 heading
\* and no date in its frontmatter, and the decks differ.
C4_Witness ==
  /\ presentation2 # None
  /\ context.metadata.date = None
  /\ \E k \in 1..Len(doc) : IsHeading(doc[k], 1)
  /\ presentation2 # presentation

\* The block is a notes directive (raw HTML or a paragraph that holds one).
IsNotesDirective(block) ==
  /\ block.kind \in {"html", "paragraph"}
  /\ DirectiveMatch(block.text, S_slide) = None
  /\ DirectiveMatch(block.text, S_notes) # None

\* C5 as claimed: when a notes directive follows a list item, the slides the
\* conversion emitted carry the directive's text as the notes of the text
\* slide that holds the item's bullet (the slide in flight when the directive
\* arrived, or the slide auto-split had just closed), and no slide after that
\* one carries notes unless a later notes directive wrote them.
C5_NotesOnBulletSlide ==
  pc = "done" =>
    \A k \in 2..Len(doc) :
      (doc[k - 1].kind = "listitem" /\ IsNotesDirective(doc[k])) =>
        LET before == Before(k)
            idx == IF Len(before.currentBullets) > 0
                   THEN Len(before.slides) + 1
                   ELSE Len(before.slides)
            X == Trim(DirectiveMatch(doc[k].text, S_notes)[1])
            slides == context.slides
        IN  /\ idx \in 1..Len(slides)
            /\ slides[idx].layout = "text"
            /\ "notes" \in DOMAIN slides[idx]
            /\ slides[idx].notes = X
            /\ (\A j \in (k + 1)..Len(doc) : ~IsNotesDirective(doc[j]))
                 => \A i \in (idx + 1)..Len(slides) : "notes" \notin DOMAIN slides[i]

\* The table handler has just run: the block, the header cells and the data
\* rows it parsed, the counted cells of the rows (those after the first of
\* each row), the numeric ones among them, and the slide it appended.
TableHandled == Len(doc) >= 1 /\ doc[Len(doc)].kind = "table"
GivenHeaders == parseHTMLTableRow(doc[Len(doc)].header, <<"t", "h">>)
GivenRows == ParsedRows(RowMatches(doc[Len(doc)].body))
CountedCells(rows) ==
  UNION {{<<r, i>> : i \in 2..Len(rows[r])} : r \in 1..Len(rows)}
NumericCells(rows) == {c \in CountedCells(rows) : parseFloat(rows[c[1]][c[2]]) # None}
Emitted == context.slides[Len(context.slides)]

\* C6 as claimed: the table handler emits a chart slide exactly when strictly
\* more than 80% of the counted cells are numeric, and a table slide otherwise.
C6_ChartIffMostlyNumeric ==
  TableHandled =>
    LET rows == GivenRows
        numeric == Cardinality(NumericCells(rows))
        counted == Cardinality(CountedCells(rows))
    IN  /\ Emitted.layout \in {"chart", "table"}
        /\ Emitted.layout = "chart" <=> 5 * numeric > 4 * counted

\* C6 amended: the table handler emits a chart slide exactly when it parsed
\* at least two header cells and at least two data rows and strictly more
\* than 80% of the counted cells are numeric; in every other case (exactly
\* 80%, a single row, a single header cell, no counted cell) a table slide.
C6_ChartIffMostlyNumericOfTwoRows ==
  TableHandled =>
    LET rows == GivenRows
        numeric == Cardinality(NumericCells(rows))
        counted == Cardinality(CountedCells(rows))
    IN  /\ Emitted.layout \in {"chart", "table"}
        /\ Emitted.layout = "chart"
             <=> /\ Len(GivenHeaders) >= 2
                 /\ Len(rows) >= 2
                 /\ 5 * numeric > 4 * counted

\* C6 witness: a table of two header cells or more and two rows or more, at
\* exactly 80% (four numeric cells of five), became a table slide.
C6_Witness ==
  /\ TableHandled
  /\ Emitted.layout = "table"
  /\ LET rows == GivenRows
     IN  /\ Len(rows) >= 2
         /\ Cardinality(CountedCells(rows)) = 5
         /\ Cardinality(NumericCells(rows)) = 4
  /\ Len(GivenHeaders) >= 2

\* C7: the chart slide of a chart-eligible table with headers h0..hk and rows
\* r1..rn has the first cell of each row as labels, in row order, and exactly
\* k datasets, dataset j labelled hj, its data the numeric value of cell j of
\* each row in row order, 0 for a cell that is missing or not numeric; so
\* every dataset is as long as the labels.
C7_ChartFromTable ==
  (TableHandled /\ Emitted.layout = "chart") =>
    LET h == GivenHeaders
        r == GivenRows
        value(k, j) == IF j + 1 <= Len(r[k]) /\ parseFloat(r[k][j + 1]) # None
                       THEN parseFloat(r[k][j + 1])[1]
                       ELSE 0
    IN  /\ Emitted.data.labels = [k \in 1..Len(r) |-> r[k][1]]
        /\ Len(Emitted.data.datasets) = Len(h) - 1
        /\ \A j \in 1..(Len(h) - 1) :
             /\ Emitted.data.datasets[j].label = h[j + 1]
             /\ Emitted.data.datasets[j].data = [k \in 1..Len(r) |-> value(k, j)]
             /\ Len(Emitted.data.datasets[j].data) = Len(Emitted.data.labels)

\* C7 witness: a chart slide of two datasets and three rows made from a table
\* with a cell that is not numeric and a row that lacks its last cell.
C7_Witness ==
  /\ TableHandled
  /\ Emitted.layout = "chart"
  /\ Len(Emitted.data.datasets) = 2
  /\ LET rows == GivenRows
     IN  /\ Len(rows) = 3
         /\ CountedCells(rows) # NumericCells(rows)
         /\ \E k \in 1..3 : Len(rows[k]) = 2

\* C8 as claimed: for a table that is not chart-eligible the handler appends
\* exactly one slide, of layout table, whose headers are the table's header
\* cells and whose tableData is the table's rows in order, every row with all
\* of its cells, however many the header has.
C8_RowsPassThrough ==
  (TableHandled /\ Emitted.layout # "chart") =>
    LET block == doc[Len(doc)]
        cleaned(cells) == [j \in 1..Len(cells) |-> cleanText(cells[j])]
    IN  /\ context.slides = Append(flushCurrentSlide(Before(Len(doc))).slides, Emitted)
        /\ Emitted.layout = "table"
        /\ Emitted.headers = cleaned(block.head)
        /\ Emitted.tableData = [i \in 1..Len(block.rows) |-> cleaned(block.rows[i])]

\* A block of CSV lines has just been handled and a chart slide came of it.
CsvCharted ==
  /\ Len(doc) >= 1
  /\ "lines" \in DOMAIN doc[Len(doc)]
  /\ Len(context.slides) >= 1
  /\ context.slides[Len(context.slides)].layout = "chart"

\* C9: the chart slide emitted for CSV data with header line h0,...,hk and
\* data lines after it has the first field of each data line as labels, in
\* line order, and one dataset per header h1..hk, named after the header, its
\* data the numeric fields of that column in line order, a field that is
\* missing or not numeric being skipped, so that a dataset is never longer
\* than the labels and never padded.  The slide is emitted whenever the header
\* has two fields or more and no data line has more fields than the header.
C9_ChartFromCsv ==
  /\ (/\ Len(doc) >= 1
      /\ "lines" \in DOMAIN doc[Len(doc)]
      /\ \A k \in 1..Len(doc[Len(doc)].lines) :
           Len(doc[Len(doc)].lines[k]) \in 2..Len(doc[Len(doc)].lines[1]))
       => CsvCharted
  /\ CsvCharted =>
    LET lines == doc[Len(doc)].lines
        h == lines[1]
        d == Tail(lines)
        field(k, col) == IF col <= Len(d[k]) THEN parseFloat(Trim(d[k][col])) ELSE None
        numbers(col) ==
          LET found == SelectSeq([k \in 1..Len(d) |-> field(k, col)],
                                 LAMBDA f : f # None)
          IN  [k \in 1..Len(found) |-> found[k][1]]
        slide == context.slides[Len(context.slides)]
    IN  /\ slide.data.labels = [k \in 1..Len(d) |-> Trim(d[k][1])]
        /\ Len(slide.data.datasets) = Len(h) - 1
        /\ \A j \in 1..(Len(h) - 1) :
             /\ slide.data.datasets[j].label = Trim(h[j + 1])
             /\ slide.data.datasets[j].data = numbers(j + 1)
             /\ Len(slide.data.datasets[j].data) <= Len(slide.data.labels)

\* C9 witness: a chart slide of three labels whose first dataset has two
\* numbers, a field of that column having been skipped.
C9_Witness ==
  /\ CsvCharted
  /\ Len(context.slides[Len(context.slides)].data.labels) = 3
  /\ Len(context.slides[Len(context.slides)].data.datasets[1].data) = 2

\* C10 as claimed: a level-3 heading that arrives while bullets are pending
\* appends its text as a bullet "**text**" at level 0, emits no slide and
\* leaves the in-flight slide in place.
C10_H3AppendsBullet ==
  [][(/\ Len(doc') = Len(doc) + 1
      /\ IsHeading(doc'[Len(doc')], 3)
      /\ Len(context.currentBullets) > 0)
     => /\ context'.slides = context.slides
        /\ context'.currentSlide = context.currentSlide
        /\ context'.currentBullets =
             Append(context.currentBullets,
                    <<"*", "*">> \o cleanText(doc'[Len(doc')].text) \o <<"*", "*">>)
        /\ context'.currentLevel = Append(context.currentLevel, 0)]_vars

\* The text of a block that is routed to processChartData.
ChartTextOf(block) == IF block.kind = "code" THEN block.source ELSE block.text

\* The texts that cannot be turned into chart data: JSON that does not parse,
\* JSON and CSV without a dataset, CSV with a row that breaks the parse, and
\* text that is neither JSON nor CSV.
FailingChartTexts == {J_Bad, J_Empty, J_NoData, C_NoSet, C_Break, K_Code}

\* C11: a block routed to chart-data processing that cannot be turned into
\* chart data appends no slide of its own and raises nothing: the conversion
\* stands where it would stand had a horizontal rule (a flush and nothing
\* else) been in the block's place, also after the blocks that follow, and
\* the returned deck is the deck of that document.
C11_FailedChartDataIsAFlush ==
  LET failed(k) == RoutedToChartData(doc[k]) /\ ChartTextOf(doc[k]) \in FailingChartTexts
      ruled == [k \in 1..Len(doc) |-> IF failed(k) THEN [kind |-> "hr"] ELSE doc[k]]
      replayed == Replay(NewContext(context.metadata), options, ruled)
  IN  (\E k \in 1..Len(doc) : failed(k)) =>
        /\ pc = "parsing" => context = replayed
        /\ pc = "done" =>
             /\ context = flushCurrentSlide(replayed)
             /\ presentation = Some(PresentationOf(replayed, options))

\* C11 witness: JSON that does not parse came after a list item and a list
\* item came after it; the two items are on two slides, at the end.
C11_Witness ==
  /\ pc = "done"
  /\ Len(doc) = 3
  /\ doc[1].kind = "listitem"
  /\ doc[2].kind = "code"
  /\ doc[2].source = J_Bad
  /\ doc[3].kind = "listitem"
  /\ Len(presentation[1].slides) = 2

\* The block is a chart directive, raw or inside a paragraph.
IsChartDirective(block) ==
  /\ block.kind \in {"html", "paragraph"}
  /\ DirectiveMatch(block.text, S_slide) = None
  /\ DirectiveMatch(block.text, S_notes) = None
  /\ DirectiveMatch(block.text, S_chart) # None

\* The slides of layout chart of a sequence of slides, in order.
ChartSlides(slides) == SelectSeq(slides, LAMBDA slide : slide.layout = "chart")

\* C16 as claimed: right after a chart directive of type t and the chart data
\* that follows it, the slides hold exactly one chart slide for the two, of
\* chartType t, with the datasets of the data.
C16_DirectiveCompletedByData ==
  (/\ pc = "parsing"
   /\ Len(doc) >= 2
   /\ IsChartDirective(doc[Len(doc) - 1])
   /\ RoutedToChartData(doc[Len(doc)])
   /\ ChartTextOf(doc[Len(doc)]) \in {P_Csv, J_Chart, J_Pie}) =>
    LET charts == ChartSlides(context.slides)
        t == ParamGet(parseDirectiveParams(
                        DirectiveMatch(doc[Len(doc) - 1].text, S_chart)[1]), S_type)
    IN  /\ Len(charts) = 1
        /\ Some(charts[1].chartType) = t
        /\ "data" \in DOMAIN charts[1]
        /\ Len(charts[1].data.datasets) > 0

\* C12 as claimed: when the leading metadata block cannot be parsed, convert
\* raises no error, and the deck it returns has the default title and no
\* author, company or subject.
C12_MalformedMetadataIgnored ==
  (doc # <<>> /\ doc[1].kind = "frontmatter" /\ matter(doc[1].raw).threw) =>
    /\ pc # "failed"
    /\ pc = "done" =>
         /\ presentation[1].title = S_Presentation
         /\ DOMAIN presentation[1] \cap {"author", "company", "subject"} = {}

\* The last block handled is one of the malformed directives.
LastIsMalformed == pc = "parsing" /\ doc # <<>> /\ doc[Len(doc)] \in MalformedBlocks

\* The directive keyword of a malformed block's comment.
HoldsComment(block, d) == block.text \in {d, S_Lead \o d}

UndatedSlides(slides) == Undated([slides |-> slides]).slides

\* The deck, clock dates apart, that convert() returns for a document alone.
DeckAlone(frontmatter, blocks) ==
  Undated(PresentationOf(Replay(NewContext(frontmatter), options, blocks), options))

\* C14: of two convert calls on one marked instance, each returns the deck
\* of its own document: the handlers of the second call write to the second
\* call's context only, and the deck and the context of the first call stay
\* what they were when it returned.
C14_OwnContextOnly ==
  /\ pc = "done" =>
       /\ Undated(presentation[1]) = DeckAlone(context.metadata, doc)
       /\ UndatedSlides(context.slides) =
            UndatedSlides(flushCurrentSlide(
              Replay(NewContext(context.metadata), options, doc)).slides)
  /\ (context2 # None /\ presentation2 = None) =>
       UndatedSlides(context2[1].slides) =
         UndatedSlides(Replay(NewContext(context2[1].metadata), options, doc2).slides)
  /\ presentation2 # None =>
       Undated(presentation2[1]) = DeckAlone(context2[1].metadata, doc2)

\* C14 witness: both calls returned, each for a document with slides, and
\* the two decks differ.
C14_Witness ==
  /\ presentation2 # None
  /\ Len(presentation[1].slides) > 0
  /\ Len(presentation2[1].slides) > 0
  /\ doc # doc2
  /\ Undated(presentation2[1]) # Undated(presentation[1])

\* The block is a plain paragraph: no directive, no chart data, not empty.
IsPlainParagraph(block) ==
  /\ block.kind = "paragraph"
  /\ ~isDirective(block.text)
  /\ ~isChartData(block.text)
  /\ cleanText(block.text) # <<>>

\* Nothing was in flight or pending before the last block was handled.
NothingInFlight(b) == b.currentSlide = None /\ b.currentBullets = <<>>

TocCase ==
  /\ pc = "done"
  /\ options.includeTableOfContents
  /\ \E i \in 1..Len(context.slides) : IsSectionDivider(context.slides[i])

\* The slide is the one insertTableOfContents makes.
IsToc(slide) == slide.layout = "text" /\ slide.title = S_TableOfContents

\* The indices, counted from 0, of the slides of title layout.
TitleIndices(slides) == {i - 1 : i \in {j \in 1..Len(slides) : slides[j].layout = "title"}}

\* C17 as claimed: the "Table of Contents" slide is at index i+1, i the index
\* of the first slide of title layout, and at index 1 when no slide is the
\* title slide of a level-1 heading.
C17_TocAfterOpener ==
  TocCase =>
    LET pre == context.slides
        deck == presentation[1].slides
        openers == {i \in TitleIndices(pre) : ~IsSectionDivider(pre[i + 1])}
        index == IF openers = {} THEN 1 ELSE MinOf(TitleIndices(pre)) + 1
    IN  Len(deck) > index /\ IsToc(deck[index + 1])

\* C17, amended: the "Table of Contents" slide is at index i+1, i the index
\* of the first slide of title layout, be it the title slide of a level-1
\* heading or a section divider; the slides before it are the i+1 first
\* slides, the slides after it the others.
C17_TocAfterFirstTitle ==
  TocCase =>
    LET pre == context.slides
        deck == presentation[1].slides
        index == MinOf(TitleIndices(pre)) + 1
    IN  /\ Len(deck) = Len(pre) + 1
        /\ IsToc(deck[index + 1])
        /\ \A k \in 1..Len(pre) :
             deck[IF k <= index THEN k ELSE k + 1].layout = pre[k].layout

\* C17 witness: a text slide precedes the only title-layout slide, a section
\* divider, and the table of contents is the third slide.
C17_Witness ==
  /\ TocCase
  /\ Len(context.slides) = 2
  /\ context.slides[1].layout = "text"
  /\ IsSectionDivider(context.slides[2])
  /\ IsToc(presentation[1].slides[3])

\* The slide without the field addSlideNumbers writes.
Unnumbered(slide) == [f \in (DOMAIN slide) \ {"slideNumber"} |-> slide[f]]

\* The slides without the k-th.
Without(slides, k) == SubSeq(slides, 1, k - 1) \o SubSeq(slides, k + 1, Len(slides))

\* The cleaned texts of the level-2 headings of the document, in order.
SectionTitles ==
  LET sections == SelectSeq(doc, LAMBDA block : IsHeading(block, 2))
  IN  [k \in 1..Len(sections) |-> cleanText(sections[k].text)]

\* C18: with the table of contents enabled, the deck of a document with a
\* level-2 heading holds exactly one slide titled "Table of Contents", a text
\* slide whose bullets are the titles of the level-2 headings in order, and
\* without it the slides are the slides convert() had built, in their order;
\* the deck of a document without a level-2 heading is those slides.
C18_TocListsSections ==
  (pc = "done" /\ options.includeTableOfContents) =>
    LET pre == context.slides
        deck == [i \in 1..Len(presentation[1].slides) |->
                   Unnumbered(presentation[1].slides[i])]
        tocs == {i \in 1..Len(deck) :
                   IF "title" \in DOMAIN deck[i] THEN deck[i].title = S_TableOfContents
                   ELSE FALSE}
    IN  IF SectionTitles = <<>>
        THEN deck = pre
        ELSE /\ Cardinality(tocs) = 1
             /\ \A i \in tocs :
                  /\ deck[i] = [layout |-> "text", title |-> S_TableOfContents,
                                bullets |-> SectionTitles]
                  /\ Without(deck, i) = pre

\* C18 witness: a level-1 heading, a level-2 heading and a list item; the
\* table of contents has the one section title.
C18_Witness ==
  /\ pc = "done"
  /\ options.includeTableOfContents
  /\ Len(doc) = 3
  /\ IsHeading(doc[1], 1)
  /\ IsHeading(doc[2], 2)
  /\ doc[3].kind = "listitem"
  /\ Len(presentation[1].slides) = 4
  /\ presentation[1].slides[2].bullets = <<cleanText(T_Heading)>>

\* The number a string of decimal digits denotes, None for any other string.
NumberOf(text) ==
  IF text # <<>> /\ \A k \in 1..Len(text) : IsDigit(text[k])
  THEN Some(DigitsValue(text)) ELSE None

\* C19: with slide numbering enabled, every slide of the deck whose layout is
\* not title has the field slideNumber, "<n> / <total>" with n its position
\* counted from 1 and total the length of the deck, table of contents
\* included; a slide of title layout has no such field; the field apart, the
\* deck is the deck convert() had before numbering.
C19_SlideNumbers ==
  (pc = "done" /\ options.slideNumbers) =>
    LET deck == presentation[1].slides
        plain == IF options.includeTableOfContents
                 THEN insertTableOfContents(context.slides) ELSE context.slides
    IN  /\ Len(deck) = Len(plain)
        /\ \A i \in 1..Len(deck) :
             /\ Unnumbered(deck[i]) = plain[i]
             /\ IF deck[i].layout = "title"
                THEN "slideNumber" \notin DOMAIN deck[i]
                ELSE /\ "slideNumber" \in DOMAIN deck[i]
                     /\ LET parts == Split(deck[i].slideNumber, " ")
                        IN  /\ Len(parts) = 3
                            /\ NumberOf(parts[1]) = Some(i)
                            /\ parts[2] = <<"/">>
                            /\ NumberOf(parts[3]) = Some(Len(deck))

\* C19 witness: a deck of four slides, the table of contents among them,
\* whose last slide is numbered and whose first, a title slide, is not.
C19_Witness ==
  /\ pc = "done"
  /\ options.slideNumbers
  /\ Len(presentation[1].slides) = 4
  /\ IsToc(presentation[1].slides[2])
  /\ presentation[1].slides[1].layout = "title"
  /\ presentation[1].slides[4].layout = "text"
  /\ presentation[1].slides[4].slideNumber = <<"4", " ", "/", " ", "4">>

\* The handler of the block appends a standalone slide: a level-1 or level-2
\* heading, a table, an image, a code block, a blockquote, a paragraph with a
\* custom slide directive, and a paragraph of chart data with a data set.
AppendsStandalone(block) ==
  \/ IsHeading(block, 1)
  \/ IsHeading(block, 2)
  \/ block.kind \in {"table", "image", "code", "blockquote"}
  \/ /\ block.kind = "paragraph"
     /\ IF isDirective(block.text)
        THEN /\ DirectiveMatch(block.text, S_slide) # None
             /\ ParamGet(parseDirectiveParams(DirectiveMatch(block.text, S_slide)[1]),
                         S_type) = Some(S_custom)
        ELSE /\ isChartData(block.text)
             /\ ~ChartDataOf(block.text).threw
             /\ HasDatasets(ChartDataOf(block.text).value)

\* C20: when the handler of the last block appended a standalone slide, no
\* bullets are pending and no slide is in flight; that slide is the last of
\* slides, and bullets that were pending before the handler ran are the
\* bullets of the text slide right before it.
C20_FlushBeforeStandalone ==
  (pc = "parsing" /\ doc # <<>> /\ AppendsStandalone(doc[Len(doc)])) =>
    LET b == Before(Len(doc))
        n == Len(context.slides)
    IN  /\ context.currentBullets = <<>>
        /\ context.currentLevel = <<>>
        /\ context.currentSlide = None
        /\ n > Len(b.slides)
        /\ context.slides[n].layout \in
             {"title", "table", "chart", "image", "notes", "custom"}
        /\ IF b.currentBullets # <<>>
           THEN /\ n = Len(b.slides) + 2
                /\ context.slides[n - 1].layout = "text"
                /\ context.slides[n - 1].bullets = b.currentBullets
                /\ context.slides[n - 1].level = b.currentLevel
           ELSE n = Len(b.slides) + (IF b.currentSlide # None
                                        /\ ~IsEmptyTextSkeleton(b.currentSlide[1])
                                     THEN 2 ELSE 1)

\* C20 witness: two bullets were pending under a level-3 title when a
\* blockquote arrived; the text slide precedes the notes slide.
C20_Witness ==
  /\ pc = "parsing"
  /\ Len(doc) = 3
  /\ IsHeading(doc[1], 3)
  /\ doc[2].kind = "paragraph"
  /\ doc[3].kind = "blockquote"
  /\ Len(context.slides) = 2
  /\ context.slides[1].layout = "text"
  /\ context.slides[1].title = cleanText(T_Heading)
  /\ Len(context.slides[1].bullets) = 1
  /\ context.slides[2].layout = "notes"

\* C21: with auto-split on and threshold T, fewer than T bullets are pending
\* after every handler call, and every text slide in slides has at most T
\* bullets.
C21_PendingBelowThreshold ==
  options.autoSplit =>
    /\ Len(context.currentBullets) < options.slidesPerPage
    /\ Len(context.currentLevel) = Len(context.currentBullets)
    /\ \A i \in 1..Len(context.slides) :
         context.slides[i].layout = "text" =>
           Len(context.slides[i].bullets) <= options.slidesPerPage

\* C21 witness: auto-split closed a slide of exactly T bullets and a bullet
\* is pending again.
C21_Witness ==
  /\ options.autoSplit
  /\ pc = "parsing"
  /\ Len(context.currentBullets) = 1
  /\ Len(context.slides) = 1
  /\ context.slides[1].layout = "text"
  /\ Len(context.slides[1].bullets) = options.slidesPerPage

\* C22 as claimed: with auto-split on and threshold T, the deck of a level-3
\* heading followed by N >= T plain paragraphs has text slides whose bullets,
\* concatenated in slide order, are the N paragraph texts in document order.
C22_SplitKeepsParagraphs ==
  (/\ pc = "done"
   /\ options.autoSplit
   /\ doc # <<>>
   /\ IsHeading(doc[1], 3)
   /\ Len(doc) - 1 >= options.slidesPerPage
   /\ \A k \in 2..Len(doc) : IsPlainParagraph(doc[k])) =>
    AllBullets(TextSlides(presentation[1].slides)) =
      [k \in 1..(Len(doc) - 1) |-> cleanText(doc[k + 1].text)]

\* The slides that were emitted or in flight before the k-th block: the
\* positions a notes directive at k can write to.
ReachableAt(k) ==
  LET b == Before(k)
  IN  Len(b.slides) + (IF b.currentSlide # None THEN 1 ELSE 0)

C24_SectionDivider ==
  (pc = "parsing" /\ doc # <<>> /\ IsHeading(doc[Len(doc)], 2)) =>
    LET b == Before(Len(doc))
        n == Len(context.slides)
        pending == IF b.currentBullets # <<>>
                      \/ (b.currentSlide # None /\ ~IsEmptyTextSkeleton(b.currentSlide[1]))
                   THEN 1 ELSE 0
    IN  /\ NothingInFlight(context)
        /\ context.sectionDepth = 2
        /\ n = Len(b.slides) + pending + 1
        /\ context.slides[n].layout = "title"
        /\ context.slides[n].title = cleanText(doc[Len(doc)].text)
        /\ DOMAIN context.slides[n] = {"layout", "title", "backgroundColor"}
        /\ context.slides[n].backgroundColor # <<>>
        /\ b.currentBullets # <<>> =>
             /\ context.slides[n - 1].layout = "text"
             /\ context.slides[n - 1].bullets = b.currentBullets

\* C24 witness: the frontmatter has author and date, a bullet was pending,
\* and the level-2 heading left a text slide and a section divider.
C24_Witness ==
  /\ pc = "parsing"
  /\ context.metadata = FM_Full
  /\ Len(doc) = 2
  /\ doc[1].kind = "listitem"
  /\ IsHeading(doc[2], 2)
  /\ Len(context.slides) = 2
  /\ context.slides[2].layout = "title"

\* C25 as claimed: sectionDepth is 2 exactly when the most recent heading of
\* level 1 or 2 was of level 2; a level-1 heading resets it to 0.
C25_SectionDepthTracksHeading ==
  LET structural == {k \in 1..Len(doc) : IsHeading(doc[k], 1) \/ IsHeading(doc[k], 2)}
  IN  /\ context.sectionDepth \in {0, 2}
      /\ context.sectionDepth = 2 <=>
           (structural # {} /\ IsHeading(doc[MaxOf(structural)], 2))

\* C26 as claimed: a heading of a level other than 1, 2 and 3 emits no slide
\* and flushes nothing: slides is unchanged, and the bullets that were pending
\* are still pending in the same in-flight slide.
C26_OtherHeadingIgnored ==
  (pc = "parsing" /\ doc # <<>> /\ doc[Len(doc)].kind = "heading"
     /\ doc[Len(doc)].level \notin {1, 2, 3}) =>
    LET b == Before(Len(doc))
    IN  /\ UndatedSlides(context.slides) = UndatedSlides(b.slides)
        /\ context.currentBullets = b.currentBullets
        /\ context.currentLevel = b.currentLevel
        /\ context.currentSlide = b.currentSlide

\* Every non-empty line of the text has as many comma-separated fields as
\* the first of them, and that number is at least two.
UniformCsv(text) ==
  LET lines == SelectSeq(Split(text, "\n"), LAMBDA line : Trim(line) # <<>>)
      count(line) == Len(Split(line, ","))
  IN  /\ lines # <<>>
      /\ count(lines[1]) >= 2
      /\ \A k \in 1..Len(lines) : count(lines[k]) = count(lines[1])

\* C27 as claimed: a text is classified as CSV chart data only if every
\* non-empty line has the same number of fields as the first, at least two;
\* a paragraph of any other text is not handed to processChartData.
C27_CsvOnlyIfUniform ==
  \A k \in 1..Len(doc) :
    doc[k].kind \in {"paragraph", "code"} =>
      LET text == ChartTextOf(doc[k])
      IN  /\ PatternCSV(text) => UniformCsv(text)
          /\ (doc[k].kind = "paragraph" /\ RoutedToChartData(doc[k])
                /\ ~PatternJSON(text) /\ ~PatternTABLE(text)) => UniformCsv(text)

\* C28: a slide directive of type custom flushes pending content and appends
\* exactly one custom slide, titled by its title parameter or else "Custom
\* Slide"; a slide directive of another type, or of none, changes nothing.
C28_CustomSlideDirective ==
  (pc = "parsing" /\ doc # <<>> /\ doc[Len(doc)] \in SlideBlocks) =>
    LET b == Before(Len(doc))
        block == doc[Len(doc)]
        n == Len(context.slides)
        pending == IF b.currentBullets # <<>>
                      \/ (b.currentSlide # None /\ ~IsEmptyTextSkeleton(b.currentSlide[1]))
                   THEN 1 ELSE 0
    IN  IF HoldsComment(block, D_Custom) \/ HoldsComment(block, D_CustomTitled)
        THEN /\ NothingInFlight(context)
             /\ n = Len(b.slides) + pending + 1
             /\ SubSeq(context.slides, 1, Len(b.slides)) = b.slides
             /\ context.slides[n].layout = "custom"
             /\ context.slides[n].title =
                  (IF HoldsComment(block, D_CustomTitled) THEN <<"C">> ELSE S_CustomSlide)
             /\ b.currentBullets # <<>> =>
                  /\ context.slides[n - 1].layout = "text"
                  /\ context.slides[n - 1].bullets = b.currentBullets
        ELSE context = b

\* C28 witness: a bullet was pending on a slide with notes when a custom
\* slide directive without a title arrived in a paragraph.
C28_Witness ==
  /\ pc = "parsing"
  /\ Len(doc) = 3
  /\ doc[1].kind = "listitem"
  /\ IsNotesDirective(doc[2])
  /\ doc[3] = [kind |-> "paragraph", text |-> S_Lead \o D_Custom]
  /\ Len(context.slides) = 2
  /\ context.slides[1].layout = "text"
  /\ context.slides[2].title = S_CustomSlide

\* C29: after a flush currentBullets and currentLevel are empty and no slide
\* is in flight, and a second flush right after it changes nothing.
C29_FlushIdempotent ==
  LET once == flushCurrentSlide(context)
      twice == flushCurrentSlide(once)
  IN  /\ once.currentBullets = <<>>
      /\ once.currentLevel = <<>>
      /\ once.currentSlide = None
      /\ twice = once
      /\ (doc # <<>> /\ doc[Len(doc)].kind = "hr") => once = context
      /\ pc = "done" => once = context

\* C29 witness: a horizontal rule flushed a pending bullet, and the final
\* flush of convert() ran right after it.
C29_Witness ==
  /\ pc = "done"
  /\ Len(doc) = 2
  /\ doc[1].kind = "listitem"
  /\ doc[2].kind = "hr"
  /\ Len(context.slides) = 1

\* The handler of the k-th block appended a bullet to currentBullets: a list
\* item always, a plain paragraph when a slide was in flight or bullets
\* were pending.
AppendsBullet(k) ==
  \/ doc[k].kind = "listitem"
  \/ /\ IsPlainParagraph(doc[k])
     /\ ~NothingInFlight(Before(k))

\* The bullets the handlers appended during the stream, and their levels.
AppendedBullets ==
  LET at == SelectSeq([k \in 1..Len(doc) |-> k], AppendsBullet)
  IN  [i \in 1..Len(at) |-> cleanText(doc[at[i]].text)]
AppendedLevels ==
  LET at == SelectSeq([k \in 1..Len(doc) |-> k], AppendsBullet)
  IN  [i \in 1..Len(at) |->
         IF doc[at[i]].kind = "listitem" THEN detectIndentLevel(doc[at[i]].text) ELSE 0]

\* C30: when convert() has returned nothing is pending, and the bullets of
\* the text slides it emitted, in slide order, are the bullets the handlers
\* appended during the stream, each once, in the order of the appends, with
\* the levels they were appended with.
C30_NoBulletLost ==
  pc = "done" =>
    LET texts == TextSlides(context.slides)
    IN  /\ NothingInFlight(context)
        /\ context.currentLevel = <<>>
        /\ AllBullets(texts) = AppendedBullets
        /\ \A i \in 1..Len(texts) :
             "level" \in DOMAIN texts[i] /\ Len(texts[i].level) = Len(texts[i].bullets)
        /\ AllLevels(texts) = AppendedLevels

\* C30 witness: three list items with auto-split at two; the final flush
\* emitted the third bullet on a slide of its own.
C30_Witness ==
  /\ pc = "done"
  /\ options.autoSplit
  /\ Len(doc) = 3
  /\ \A k \in 1..3 : doc[k].kind = "listitem"
  /\ Len(context.slides) = 2
  /\ Len(context.slides[2].bullets) = 1

\* The slide without its notes field.
WithoutNotes(slide) == [f \in (DOMAIN slide) \ {"notes"} |-> slide[f]]

\* C31: every handler call leaves the slides it found as a prefix of the
\* slides it leaves, in order and with every field unchanged, but for the
\* notes of the last of them, which only a notes directive writes.
C31_SlidesAppendOnly ==
  (pc = "parsing" /\ doc # <<>>) =>
    LET found == UndatedSlides(Before(Len(doc)).slides)
        left == UndatedSlides(context.slides)
        n == Len(found)
    IN  /\ Len(left) >= n
        /\ \A i \in 1..(n - 1) : left[i] = found[i]
        /\ n > 0 =>
             \/ left[n] = found[n]
             \/ /\ IsNotesDirective(doc[Len(doc)])
                /\ Len(left) = n
                /\ WithoutNotes(left[n]) = WithoutNotes(found[n])

\* C31 witness: two slides were emitted, a notes directive wrote to the
\* second, and the first is as it was.
C31_Witness ==
  /\ pc = "parsing"
  /\ Len(doc) = 3
  /\ IsNotesDirective(doc[3])
  /\ Len(context.slides) = 2
  /\ "notes" \in DOMAIN context.slides[2]
  /\ "notes" \notin DOMAIN context.slides[1]

\* C32: in every reachable state currentBullets and currentLevel have the
\* same length, and every text slide among the emitted slides carries a
\* level array as long as its bullets.
C32_LevelsMatchBullets ==
  pc = "parsing" =>
    /\ Len(context.currentLevel) = Len(context.currentBullets)
    /\ \A i \in 1..Len(context.slides) :
         context.slides[i].layout = "text" =>
           /\ "bullets" \in DOMAIN context.slides[i]
           /\ "level" \in DOMAIN context.slides[i]
           /\ Len(context.slides[i].level) = Len(context.slides[i].bullets)

\* C32 witness: a text slide of two bullets, one of them nested, was emitted
\* and a bullet is pending.
C32_Witness ==
  /\ pc = "parsing"
  /\ Len(context.currentBullets) = 1
  /\ Len(context.slides) = 1
  /\ context.slides[1].layout = "text"
  /\ Len(context.slides[1].bullets) = 2
  /\ context.slides[1].level = <<1, 1>>

\* The target is a web address: it starts with http:// or https://.
IsWebAddress(href) ==
  \/ StartsWithAt(href, 1, S_http \o <<":", "/", "/">>)
  \/ StartsWithAt(href, 1, S_http \o <<"s", ":", "/", "/">>)

\* C33: the image handler flushes pending content and appends exactly one
\* image slide, which has imageUrl and no imagePath when the target starts
\* with http:// or https://, and imagePath and no imageUrl otherwise.
C33_ImageUrlIffWebAddress ==
  (pc = "parsing" /\ doc # <<>> /\ doc[Len(doc)].kind = "image") =>
    LET flushed == flushCurrentSlide(Before(Len(doc)))
        n == Len(flushed.slides)
        href == doc[Len(doc)].href
    IN  /\ Len(context.slides) = n + 1
        /\ SubSeq(UndatedSlides(context.slides), 1, n) = UndatedSlides(flushed.slides)
        /\ context.currentSlide = None
        /\ context.currentBullets = <<>>
        /\ LET slide == context.slides[n + 1]
           IN  /\ slide.layout = "image"
               /\ ("imageUrl" \in DOMAIN slide) # ("imagePath" \in DOMAIN slide)
               /\ ("imageUrl" \in DOMAIN slide) <=> IsWebAddress(href)
               /\ "imageUrl" \in DOMAIN slide => slide.imageUrl = href
               /\ "imagePath" \in DOMAIN slide => slide.imagePath = href

\* The block asks for chart-data processing: by its tag or by its content.
IsChartCode(block) ==
  \/ block.language = Some(S_chartLang)
  \/ block.language = Some(S_csv)
  \/ isChartData(block.source)

\* What the code block handler left, given the word that stands for the
\* language in the title of a block without a tag: a block that is no chart
\* data yields the flush and one notes slide with the raw code; a block that
\* is chart data yields the flush and after it no notes slide.
CodeBlockEffect(untagged) ==
  (pc = "parsing" /\ doc # <<>> /\ doc[Len(doc)].kind = "code") =>
    LET block == doc[Len(doc)]
        flushed == flushCurrentSlide(Before(Len(doc)))
        n == Len(flushed.slides)
    IN  /\ Len(context.slides) >= n
        /\ SubSeq(UndatedSlides(context.slides), 1, n) = UndatedSlides(flushed.slides)
        /\ context.currentSlide = None
        /\ context.currentBullets = <<>>
        /\ IF IsChartCode(block)
           THEN \A i \in (n + 1)..Len(context.slides) :
                  context.slides[i].layout # "notes"
           ELSE /\ Len(context.slides) = n + 1
                /\ context.slides[n + 1] =
                     [layout |-> "notes",
                      title |-> S_CodePrefix \o OrElse(block.language, untagged),
                      content |-> block.source]

\* C34 as stated: a code block that is no chart data flushes and appends one
\* notes slide titled "Code: <language>" with the raw code; a block that is
\* chart data never yields a notes slide.  By the letter the title of a block
\* without a tag is the prefix alone.
C34_CodeBlockNotesSlide == CodeBlockEffect(<<>>)

\* C34 amended: the same, with the title "Code: snippet" for a block that has
\* no language tag.
C34_CodeBlockNotesSlideOrSnippet == CodeBlockEffect(S_snippet)

\* C34 witness: a code block without a tag, no chart data, arrived while a
\* bullet was pending; the bullet's slide and the notes slide were emitted.
C34_Witness ==
  /\ pc = "parsing"
  /\ Len(doc) = 2
  /\ doc[2].kind = "code"
  /\ doc[2].language = None
  /\ ~IsChartCode(doc[2])
  /\ Len(context.slides) = 2
  /\ context.slides[1].layout = "text"
  /\ context.slides[2].layout = "notes"
  /\ context.slides[2].title = S_CodePrefix \o S_snippet

\* C35: a horizontal rule has the effect of one flush.  It appends at most
\* one slide, the one built from what was pending (the text slide of the
\* pending bullets under the in-flight title, or the in-flight skeleton of
\* another layout as it is), leaves nothing in flight, and leaves the whole
\* context unchanged when nothing was pending.
C35_RuleIsOneFlush ==
  (pc = "parsing" /\ doc # <<>> /\ doc[Len(doc)].kind = "hr") =>
    LET b == Undated(Before(Len(doc)))
        left == Undated(context)
        n == Len(b.slides)
    IN  /\ NothingInFlight(left)
        /\ left.currentLevel = <<>>
        /\ left.metadata = b.metadata
        /\ left.sectionDepth = b.sectionDepth
        /\ Len(left.slides) \in {n, n + 1}
        /\ SubSeq(left.slides, 1, n) = b.slides
        /\ NothingInFlight(b) => left = b
        /\ Len(left.slides) = n + 1 =>
             IF b.currentBullets # <<>>
             THEN /\ left.slides[n + 1].layout = "text"
                  /\ left.slides[n + 1].bullets = b.currentBullets
                  /\ left.slides[n + 1].title = TitleOr(b.currentSlide, S_Content)
             ELSE /\ b.currentSlide # None
                  /\ left.slides[n + 1] = b.currentSlide[1]
        /\ b.currentBullets # <<>> => Len(left.slides) = n + 1

\* C35 witness: a rule closed the slide of a pending bullet, and a second
\* rule right after it changed nothing.
C35_Witness ==
  /\ pc = "parsing"
  /\ Len(doc) = 3
  /\ doc[1].kind = "listitem"
  /\ doc[2].kind = "hr"
  /\ doc[3].kind = "hr"
  /\ Len(context.slides) = 1
  /\ context.slides[1].layout = "text"

\* C36: every slide of layout chart among the emitted slides has a title, a
\* chartType and data with labels and at least one dataset; the skeleton of a
\* chart directive is never emitted without data.
C36_ChartSlidesComplete ==
  \A i \in 1..Len(context.slides) :
    LET slide == context.slides[i]
    IN  slide.layout = "chart" =>
          /\ "title" \in DOMAIN slide
          /\ "chartType" \in DOMAIN slide
          /\ "data" \in DOMAIN slide
          /\ IF "data" \in DOMAIN slide
             THEN /\ "labels" \in DOMAIN slide.data
                  /\ "datasets" \in DOMAIN slide.data
                  /\ Len(slide.data.datasets) >= 1
             ELSE FALSE

\* C37: a table or chart-data block right after a level-3 heading yields a
\* table or chart slide titled with the heading's text, and the titles
\* "Data Table", "Data Chart" and "Chart" appear only when no titled slide
\* was in flight when the block arrived.
C37_HeadingTitlesDataSlide ==
  (pc = "parsing" /\ Len(doc) >= 1) =>
    LET k == Len(doc)
        block == doc[k]
        b == Before(k)
        n == Len(flushCurrentSlide(b).slides)
    IN  ((block.kind = "table" \/ RoutedToChartData(block))
           /\ Len(context.slides) = n + 1
           /\ context.slides[n + 1].layout \in {"table", "chart"}) =>
          LET slide == context.slides[n + 1]
          IN  /\ (k >= 2 /\ IsHeading(doc[k - 1], 3)) =>
                   slide.title = cleanText(doc[k - 1].text)
              /\ slide.title \in {S_DataTable, S_DataChart, S_Chart} =>
                   TitleOr(b.currentSlide, None) = None

\* C38: of the text slides of a run of list items under a level-3 heading,
\* the first carries the heading's title and every later one, built after an
\* auto-split closed the slide before it, is titled "Content"; so is the
\* slide in flight after a split.
C38_ContinuationTitledContent ==
  (doc # <<>> /\ IsHeading(doc[1], 3)
     /\ \A k \in 2..Len(doc) : doc[k].kind = "listitem") =>
    /\ \A i \in 1..Len(context.slides) :
         /\ context.slides[i].layout = "text"
         /\ context.slides[i].title =
              IF i = 1 THEN cleanText(doc[1].text) ELSE S_Content
    /\ context.currentSlide # None =>
         context.currentSlide[1].title =
           IF context.slides = <<>> THEN cleanText(doc[1].text) ELSE S_Content
    /\ pc = "done" =>
         Len(context.slides) =
           (Len(doc) - 1 + options.slidesPerPage - 1) \div options.slidesPerPage

\* C38 witness: a level-3 heading and three list items with auto-split at
\* two; the first slide has the heading's title, the second is "Content".
C38_Witness ==
  /\ pc = "done"
  /\ options.slidesPerPage = 2
  /\ Len(doc) = 4
  /\ IsHeading(doc[1], 3)
  /\ Len(context.slides) = 2
  /\ context.slides[1].title = cleanText(T_Heading)
  /\ context.slides[2].title = S_Content

\* The errors of the result, none when errors is undefined.
ErrorsOf(result) == IF Has(result, "errors") THEN result.errors ELSE <<>>

\* The number of the result's errors for the field.
ErrorsAt(result, field) ==
  Cardinality({e \in 1..Len(ErrorsOf(result)) : ErrorsOf(result)[e].field = field})

\* The datasets of the slides whose data length differs from the labels
\* length, and the rows of the slides that are not as long as the first row
\* of their table, each as <<slide, dataset or row>>, counted from 1.
MismatchedDatasets(deck) ==
  UNION {LET slide == deck.slides[i]
         IN  IF slide.layout = "chart" /\ Has(slide, "data") /\ Has(slide.data, "labels")
             THEN {<<i, j>> : j \in {j \in 1..Len(slide.data.datasets) :
                                       Len(slide.data.datasets[j].data)
                                         # Len(slide.data.labels)}}
             ELSE {} : i \in 1..Len(deck.slides)}
RaggedRows(deck) ==
  UNION {LET slide == deck.slides[i]
         IN  IF slide.layout = "table"
             THEN {<<i, j>> : j \in {j \in 1..Len(slide.tableData) :
                                       Len(slide.tableData[j])
                                         # Len(slide.tableData[1])}}
             ELSE {} : i \in 1..Len(deck.slides)}

\* C39: validate returns a result for every presentation; the result has one
\* error, under the field of the dataset's data, for every chart dataset
\* whose data length differs from the labels length, and one, under the
\* field of the row, for every table row whose length differs from the first
\* row's; valid is false then, and valid is true exactly when the result
\* carries no error.
C39_ViolationsAreErrors ==
  pc = "validated" =>
    LET deck == presentation[1]
        result == validation[1]
    IN  /\ \A p \in MismatchedDatasets(deck) :
             ErrorsAt(result, Prefix(p[1] - 1) \o F_datasets \o <<"[">>
                                \o Decimal(p[2] - 1) \o <<"]">> \o F_data) = 1
        /\ \A p \in RaggedRows(deck) :
             ErrorsAt(result, Prefix(p[1] - 1) \o F_tableData \o <<"[">>
                                \o Decimal(p[2] - 1) \o <<"]">>) = 1
        /\ (MismatchedDatasets(deck) # {} \/ RaggedRows(deck) # {}) => ~result.valid
        /\ result.valid <=> ~Has(result, "errors")
        /\ Has(result, "errors") => Len(result.errors) > 0
        /\ (/\ Len(deck.slides) = 1
            /\ deck.slides[1] \in
                 {[layout |-> "table", title |-> S_DataTable, tableData |-> <<V_Two, V_Two>>],
                  [layout |-> "chart", title |-> S_Chart, chartType |-> S_bar,
                   data |-> [labels |-> V_Labels, datasets |-> <<V_Exact, V_Exact>>]]}
            /\ ~Has(deck, "theme")) => result.valid

\* C39 witness: a table whose second and third rows are shorter than the
\* first was validated, and the result has an error for each of the two.
C39_Witness ==
  /\ pc = "validated"
  /\ Len(presentation[1].slides) = 2
  /\ presentation[1].slides[2].layout = "table"
  /\ presentation[1].slides[2].tableData = <<V_Two, V_One, V_One>>
  /\ ~validation[1].valid
  /\ ErrorsAt(validation[1], Prefix(1) \o F_tableData \o <<"[", "2", "]">>) = 1

====
